---------------------------- MODULE Spec2Model ----------------------------
(***************************************************************************)
(* Model of the walk-in refrigeration controller                           *)
(* (src/src/refrigeration): the SCK frame codec (sck.py), the in-memory    *)
(* UART (uart.py) and the controller's step() (controller.py).             *)
(*                                                                         *)
(* Text is modelled character by character: a str is a sequence of         *)
(* one-character strings, a bytes object a sequence of integers 0..255.    *)
(* The characters of the model are the printable ASCII characters          *)
(* (codes 32..126); every line the model injects is made of them.          *)
(*                                                                         *)
(* Python floats are modelled as integers counting halves (FloatScale):    *)
(* the temperatures of the model are multiples of 0.5, for which binary    *)
(* floating point addition, subtraction and comparison are exact.          *)
(* Python ints are unbounded; they are modelled by their sign and their    *)
(* canonical decimal digits.                                               *)
(***************************************************************************)
EXTENDS Integers, Sequences, FiniteSets, TLC

(***************************************************************************)
(* Characters and strings                                                  *)
(***************************************************************************)

\* LET name == value IN In(name), the value being computed once
Let(value, In(_)) == In(value)

\* The printable ASCII characters in code order; Ascii[i] has code i + 31.
\* (Code 96, the grave accent, cannot be written in a string and is named.)
Ascii ==
  <<" ", "!", "\"", "#", "$", "%", "&", "'", "(", ")", "*", "+", ",", "-", ".", "/",
    "0", "1", "2", "3", "4", "5", "6", "7", "8", "9", ":", ";", "<", "=", ">", "?",
    "@", "A", "B", "C", "D", "E", "F", "G", "H", "I", "J", "K", "L", "M", "N", "O",
    "P", "Q", "R", "S", "T", "U", "V", "W", "X", "Y", "Z", "[", "\\", "]", "^", "_",
    "grave", "a", "b", "c", "d", "e", "f", "g", "h", "i", "j", "k", "l", "m", "n", "o",
    "p", "q", "r", "s", "t", "u", "v", "w", "x", "y", "z", "{", "|", "}", "~">>

Chars == {Ascii[i] : i \in 1..Len(Ascii)}

\* chr(code) for a printable code
Chr(code) == Ascii[code - 31]

OrdTable == [c \in Chars |-> (CHOOSE i \in 1..Len(Ascii) : Ascii[i] = c) + 31]

\* ord(c)
Ord(c) == OrdTable[c]

IsPrintable(code) == code >= 32 /\ code < 32 + Len(Ascii)

Digits == <<"0", "1", "2", "3", "4", "5", "6", "7", "8", "9">>

IsDigit(c) == \E i \in 1..10 : Digits[i] = c

DigitVal(c) == (CHOOSE i \in 1..10 : Digits[i] = c) - 1

HexUpper == <<"0", "1", "2", "3", "4", "5", "6", "7", "8", "9", "A", "B", "C", "D", "E", "F">>

HexLower == <<"0", "1", "2", "3", "4", "5", "6", "7", "8", "9", "a", "b", "c", "d", "e", "f">>

IsHexDigit(c) == \E i \in 1..16 : HexUpper[i] = c \/ HexLower[i] = c

HexVal(c) == (CHOOSE i \in 1..16 : HexUpper[i] = c \/ HexLower[i] = c) - 1

\* str.startswith(prefix)
StartsWith(s, p) == Len(s) >= Len(p) /\ SubSeq(s, 1, Len(p)) = p

\* c in s, for a single character c
Contains(s, c) == \E i \in 1..Len(s) : s[i] = c

\* index of the first occurrence of c in s (s contains c)
IndexOf(s, c) == CHOOSE i \in 1..Len(s) : s[i] = c /\ \A j \in 1..(i - 1) : s[j] # c

\* s.split(c, 1) for a string s that contains c: the parts before and after
\* the first occurrence
SplitOnce(s, c) ==
  LET i == IndexOf(s, c)
  IN  <<SubSeq(s, 1, i - 1), SubSeq(s, i + 1, Len(s))>>

\* index of the first non-blank character of s at or after i (Len(s) + 1 if none)
RECURSIVE SkipBlanks(_, _)
SkipBlanks(s, i) == IF i > Len(s) \/ s[i] # " " THEN i ELSE SkipBlanks(s, i + 1)

\* index of the last non-blank character of s at or before i (0 if none)
RECURSIVE SkipBlanksBack(_, _)
SkipBlanksBack(s, i) == IF i < 1 \/ s[i] # " " THEN i ELSE SkipBlanksBack(s, i - 1)

\* str.strip(): the only whitespace among the printable characters is " "
Strip(s) == SubSeq(s, SkipBlanks(s, 1), SkipBlanksBack(s, Len(s)))

\* The maximal runs of non-blank characters of s[lo..hi], in order, each as
\* <<first, last>>; runs that meet at the middle are joined.
RECURSIVE TokenSpans(_, _, _)
TokenSpans(s, lo, hi) ==
  IF lo > hi THEN <<>>
  ELSE IF lo = hi THEN (IF s[lo] = " " THEN <<>> ELSE <<(<<lo, lo>>)>>)
  ELSE LET mid == (lo + hi) \div 2
           l == TokenSpans(s, lo, mid)
           r == TokenSpans(s, mid + 1, hi)
       IN  IF Len(l) > 0 /\ Len(r) > 0 /\ l[Len(l)][2] = mid /\ r[1][1] = mid + 1
           THEN SubSeq(l, 1, Len(l) - 1) \o <<(<<l[Len(l)][1], r[1][2]>>)>> \o Tail(r)
           ELSE l \o r

\* str.split(): the whitespace-separated tokens of s
SplitWs(s) ==
  LET spans == TokenSpans(s, 1, Len(s))
  IN  [k \in 1..Len(spans) |-> SubSeq(s, spans[k][1], spans[k][2])]

\* sep.join(parts) for a one-character separator
RECURSIVE JoinRange(_, _, _, _)
JoinRange(parts, sep, lo, hi) ==
  IF lo > hi THEN <<>>
  ELSE IF lo = hi THEN parts[lo]
  ELSE LET mid == (lo + hi) \div 2
       IN  JoinRange(parts, sep, lo, mid) \o sep \o JoinRange(parts, sep, mid + 1, hi)

Join(parts, sep) == JoinRange(parts, sep, 1, Len(parts))

(***************************************************************************)
(* sck.py: the SCK frame codec                                             *)
(***************************************************************************)

STX == 2

ETX == 3

\* FRAME_PREFIX = "SCK"
FRAME_PREFIX == <<"S", "C", "K">>

\* DEFAULT_VERSION = 0x0420
DEFAULT_VERSION == 1056

\* class SCKCommand
MONITOR_SET_CONFIG == 1

MONITOR_GET_CONFIG == 2

MONITOR_GET_STATUS == 3

IO_SET_SENSOR == 257

IO_SET_INPUT == 258

IO_GET_IO == 259

\* largest value of the LENGTH field encode_frame accepts
MaxLength == 1023

\* bit k of v
Bit(v, k) == (v \div (2 ^ k)) % 2

\* v ^ (1 << k)
ToggleBit(v, k) == IF Bit(v, k) = 1 THEN v - 2 ^ k ELSE v + 2 ^ k

\* crc ^ byte, for 0 <= byte <= 255: only the low eight bits of crc change
RECURSIVE XorByte(_, _, _)
XorByte(crc, byte, k) ==
  IF k = 8 THEN crc
  ELSE LET next == IF Bit(byte, k) = 1 THEN ToggleBit(crc, k) ELSE crc
       IN  IF next >= 0 THEN XorByte(next, byte, k + 1) ELSE next

\* the inner loop of crc16_ibm, n more times:
\*   crc = (crc >> 1) ^ 0xA001 if crc & 1 else crc >> 1
\* 0xA001 is bits 15, 13 and 0, and bit 15 of crc >> 1 is clear
RECURSIVE CrcShift(_, _)
CrcShift(crc, n) ==
  IF n = 0 THEN crc
  ELSE LET next == IF crc % 2 = 1
                   THEN ToggleBit(ToggleBit((crc \div 2) + 32768, 13), 0)
                   ELSE crc \div 2
       IN  IF next >= 0 THEN CrcShift(next, n - 1) ELSE next

\* the outer loop of crc16_ibm over data[lo..hi], starting from crc
RECURSIVE CrcRange(_, _, _, _)
CrcRange(crc, data, lo, hi) ==
  IF lo > hi THEN crc
  ELSE IF lo = hi THEN CrcShift(XorByte(crc, data[lo], 0), 8)
  ELSE LET mid == (lo + hi) \div 2
           left == CrcRange(crc, data, lo, mid)
       IN  IF left >= 0 THEN CrcRange(left, data, mid + 1, hi) ELSE left

crc16_ibm(data) == CrcRange(65535, data, 1, Len(data)) % 65536

\* value.to_bytes(2, "big")
ToBytes2_big_endian(v) == <<v \div 256, v % 256>>

\* value.to_bytes(2, "little")
ToBytes2(v) == <<v % 256, v \div 256>>

\* int.from_bytes(b, "little") for two bytes
FromBytes2(b) == b[1] + 256 * b[2]

\* class SCKFrame
SCKFrame(version, tid, frame_type, command, payload) ==
  [version |-> version, tid |-> tid, frame_type |-> frame_type,
   command |-> command, payload |-> payload]

NoFrame == SCKFrame(0, 0, "-", 0, <<>>)

\* encode_frame: err = "SCKError" when the frame is rejected
encode_frame(frame) ==
  LET length == 3 + Len(frame.payload)
      packet == <<STX>> \o ToBytes2(frame.version) \o ToBytes2(length)
                \o <<frame.tid, Ord(frame.frame_type)>>
                \o ToBytes2(frame.command) \o frame.payload
      crc_input == SubSeq(packet, 4, 5) \o SubSeq(packet, 7, Len(packet))
  IN  IF frame.frame_type \notin {"C", "S"} THEN [err |-> "SCKError", packet |-> <<>>]
      ELSE IF ~(0 <= frame.version /\ frame.version <= 65535)
      THEN [err |-> "SCKError", packet |-> <<>>]
      ELSE IF ~(0 <= frame.tid /\ frame.tid <= 255)
      THEN [err |-> "SCKError", packet |-> <<>>]
      ELSE IF ~(0 <= frame.command /\ frame.command <= 65535)
      THEN [err |-> "SCKError", packet |-> <<>>]
      ELSE IF ~(1 <= length /\ length <= MaxLength)
      THEN [err |-> "SCKError", packet |-> <<>>]
      ELSE [err |-> "none",
            packet |-> packet \o ToBytes2(crc16_ibm(crc_input)) \o <<ETX>>]

\* decode_frame with the CRC comparison left out
decode_frame_without_crc(packet) ==
  LET n == Len(packet)
      length == FromBytes2(SubSeq(packet, 4, 5))
      payload_end == 9 + length - 3
      bad == [err |-> "SCKError", frame |-> NoFrame]
  IN  IF n < 11 THEN bad
      ELSE IF packet[1] # STX THEN bad
      ELSE IF packet[n] # ETX THEN bad
      ELSE IF length - 3 < 0 THEN bad
      ELSE IF payload_end + 3 # n THEN bad
      ELSE IF packet[7] \notin {Ord("C"), Ord("S")} THEN bad
      ELSE [err |-> "none",
            frame |-> SCKFrame(FromBytes2(SubSeq(packet, 2, 3)), packet[6], Chr(packet[7]),
                               FromBytes2(SubSeq(packet, 8, 9)),
                               SubSeq(packet, 10, payload_end))]

\* decode_frame: err = "SCKError" when the packet is rejected
decode_frame(packet) ==
  LET n == Len(packet)
      version == FromBytes2(SubSeq(packet, 2, 3))
      length == FromBytes2(SubSeq(packet, 4, 5))
      tid == packet[6]
      type_code == packet[7]
      command == FromBytes2(SubSeq(packet, 8, 9))
      payload_length == length - 3
      payload_end == 9 + payload_length
      crc_end == payload_end + 2
      payload == SubSeq(packet, 10, payload_end)
      crc_actual == FromBytes2(SubSeq(packet, payload_end + 1, crc_end))
      crc_input == SubSeq(packet, 4, 5) \o SubSeq(packet, 7, payload_end)
      crc_expected == crc16_ibm(crc_input)
      bad == [err |-> "SCKError", frame |-> NoFrame]
  IN  IF n < 11 THEN bad
      ELSE IF packet[1] # STX THEN bad
      ELSE IF packet[n] # ETX THEN bad
      ELSE IF payload_length < 0 THEN bad
      ELSE IF crc_end + 1 # n THEN bad
      ELSE IF crc_actual # crc_expected THEN bad
      ELSE IF type_code \notin {Ord("C"), Ord("S")} THEN bad
      ELSE [err |-> "none",
            frame |-> SCKFrame(version, tid, Chr(type_code), command, payload)]

\* f"{byte:02X}"
Hex2(byte) == <<HexUpper[(byte \div 16) + 1], HexUpper[(byte % 16) + 1]>>

\* format_hex_line
format_hex_line(packet) ==
  FRAME_PREFIX \o <<" ">> \o Join([i \in 1..Len(packet) |-> Hex2(packet[i])], <<" ">>)

\* int(token, 16) followed by the range check of bytes(): a token of hex
\* digits is a byte when its value is at most 255.  -1 stands for ValueError.
HexByte(token) ==
  LET nz == {i \in 1..Len(token) : token[i] # "0"}
      first == IF nz = {} THEN Len(token) + 1 ELSE CHOOSE i \in nz : \A j \in nz : i <= j
      sig == SubSeq(token, first, Len(token))
  IN  IF Len(token) = 0 \/ \E i \in 1..Len(token) : ~IsHexDigit(token[i]) THEN -1
      ELSE IF Len(sig) > 2 THEN -1
      ELSE IF Len(sig) = 0 THEN 0
      ELSE IF Len(sig) = 1 THEN HexVal(sig[1])
      ELSE 16 * HexVal(sig[1]) + HexVal(sig[2])

\* parse_hex_line: is_frame is FALSE when the function returns None (no
\* "SCK " prefix); err = "SCKError" when it raises
parse_hex_line(line) ==
  Let(Strip(line), LAMBDA normalized :
    IF ~StartsWith(normalized, FRAME_PREFIX \o <<" ">>)
    THEN [err |-> "none", is_frame |-> FALSE, frame |-> NoFrame]
    ELSE Let(Strip(SubSeq(normalized, Len(FRAME_PREFIX) + 2, Len(normalized))), LAMBDA raw :
      IF Len(raw) = 0
      THEN [err |-> "SCKError", is_frame |-> FALSE, frame |-> NoFrame]
      ELSE Let(SplitWs(raw), LAMBDA tokens :
        Let([i \in 1..Len(tokens) |-> HexByte(tokens[i])], LAMBDA packet :
          IF \E i \in 1..Len(packet) : packet[i] < 0
          THEN [err |-> "SCKError", is_frame |-> FALSE, frame |-> NoFrame]
          ELSE Let(decode_frame(packet), LAMBDA decoded :
            [err |-> decoded.err, is_frame |-> decoded.err = "none",
             frame |-> decoded.frame])))))

\* str.encode("utf-8") of printable ASCII text
EncodeUtf8(text) == [i \in 1..Len(text) |-> Ord(text[i])]

\* build_command_line
build_command_line(command, payload_text, tid, version) ==
  Let(encode_frame(SCKFrame(version, tid, "C", command, EncodeUtf8(payload_text))),
      LAMBDA enc : [err |-> enc.err,
                    line |-> IF enc.err = "none" THEN format_hex_line(enc.packet) ELSE <<>>])

\* build_status_line; the controller never passes version, so the frame
\* carries DEFAULT_VERSION
build_status_line(command, payload_text, tid) ==
  Let(encode_frame(SCKFrame(DEFAULT_VERSION, tid, "S", command, EncodeUtf8(payload_text))),
      LAMBDA enc : [err |-> enc.err,
                    line |-> IF enc.err = "none" THEN format_hex_line(enc.packet) ELSE <<>>])

(***************************************************************************)
(* Python values: float (in halves), int (sign and decimal digits), bool   *)
(***************************************************************************)

\* the fractions of the floats of the model: .0 and .5
Fractions == <<"0", "5">>

\* a float f is the integer f * FloatScale
FloatScale == Len(Fractions)

\* the decimal digits of a natural number, str(n)
RECURSIVE NatToStr(_)
NatToStr(n) == IF n < 10 THEN <<Digits[n + 1]>> ELSE NatToStr(n \div 10) \o <<Digits[(n % 10) + 1]>>

\* the value of a sequence of decimal digits (short enough not to overflow)
RECURSIVE StrToNat(_)
StrToNat(d) == IF Len(d) = 0 THEN 0 ELSE 10 * StrToNat(SubSeq(d, 1, Len(d) - 1)) + DigitVal(d[Len(d)])

AllDigits(s) == Len(s) > 0 /\ \A i \in 1..Len(s) : IsDigit(s[i])

\* digits without their leading zeros ("0" for zero)
Canonical(d) ==
  LET first == SkipBlanks([i \in 1..Len(d) |-> IF d[i] = "0" THEN " " ELSE d[i]], 1)
  IN  IF first > Len(d) THEN <<"0">> ELSE SubSeq(d, first, Len(d))

\* a Python int
PyInt(neg, digits) == [neg |-> neg, digits |-> digits]

IntOf(n) == PyInt(FALSE, NatToStr(n))

\* str(v) for an int
FormatInt(v) == (IF v.neg THEN <<"-">> ELSE <<>>) \o v.digits

\* int(text): an optional sign and decimal digits; anything else is a
\* ValueError (the lines of the model carry no blanks or underscores in numbers)
ParseInt(text) ==
  LET signed == Len(text) > 0 /\ text[1] \in {"+", "-"}
      body == IF signed THEN Tail(text) ELSE text
      digits == Canonical(body)
  IN  IF ~AllDigits(body) THEN [err |-> "ValueError", val |-> IntOf(0)]
      ELSE [err |-> "none",
            val |-> PyInt(signed /\ text[1] = "-" /\ digits # <<"0">>, digits)]

\* n >= v for a clock difference n >= 0 and an int v; a non-negative int of
\* more than 9 digits exceeds every clock difference
GeInt(n, v) ==
  IF v.neg THEN TRUE
  ELSE IF Len(v.digits) > 9 THEN FALSE
  ELSE n >= StrToNat(v.digits)

\* bool(v) for an int
IntTruth(v) == v.digits # <<"0">>

\* str(f) for a float: repr of a multiple of 0.5 of moderate size
FormatFloat(f) ==
  LET a == IF f < 0 THEN -f ELSE f
  IN  (IF f < 0 THEN <<"-">> ELSE <<>>) \o NatToStr(a \div FloatScale)
      \o <<".", Fractions[(a % FloatScale) + 1]>>

\* float(text) for the decimal literals [sign] digits [ "." [ "0" | "5" ] ] of
\* at most 9 digits; any other text of the model is one float() rejects:
\* ValueError
ParseFloat(text) ==
  LET signed == Len(text) > 0 /\ text[1] \in {"+", "-"}
      body == IF signed THEN Tail(text) ELSE text
      dotted == Contains(body, ".")
      whole == IF dotted THEN SplitOnce(body, ".")[1] ELSE body
      frac == IF dotted THEN SplitOnce(body, ".")[2] ELSE <<>>
      mag == FloatScale * StrToNat(whole) + (IF frac = <<"5">> THEN 1 ELSE 0)
  IN  IF ~AllDigits(whole) \/ Len(whole) > 9
         \/ frac \notin {<<>>} \cup {<<Fractions[i]>> : i \in 1..Len(Fractions)}
      THEN [err |-> "ValueError", val |-> 0]
      ELSE [err |-> "none", val |-> IF signed /\ text[1] = "-" THEN -mag ELSE mag]

\* _format_value for a bool
FormatBool(b) == IF b THEN <<"1">> ELSE <<"0">>

(***************************************************************************)
(* config.py                                                               *)
(***************************************************************************)

\* WalkInDimensionsFt(): no operation of the controller changes it
WalkInDimensionsFt == [length |-> 10 * FloatScale, width |-> 10 * FloatScale,
                       height |-> 10 * FloatScale]

\* WalkInDimensionsFt.volume_ft3
volume_ft3(d) == (d.length * d.width * d.height) \div (FloatScale * FloatScale)

\* ControlConfig(): the five dataclass fields; doc is the instance
\* attribute __doc__ (own = FALSE while the object has none of its own and
\* the attribute resolves to the docstring of the class)
ControlConfig ==
  [target_temp_c |-> 2 * FloatScale,
   hysteresis_c |-> 1 * FloatScale,
   compressor_min_off_s |-> IntOf(120),
   defrost_interval_s |-> IntOf(6 * 60 * 60),
   defrost_duration_s |-> IntOf(20 * 60),
   doc |-> [own |-> FALSE, text |-> <<>>]]

FloatFields == {"target_temp_c", "hysteresis_c"}

IntFields == {"compressor_min_off_s", "defrost_interval_s", "defrost_duration_s"}

\* the fields in declaration order, as asdict() lists them
ConfigFields == <<"target_temp_c", "hysteresis_c", "compressor_min_off_s",
                  "defrost_interval_s", "defrost_duration_s">>

\* the names of the fields as Python strings
FieldName ==
  [target_temp_c |-> <<"t", "a", "r", "g", "e", "t", "_", "t", "e", "m", "p", "_", "c">>,
   hysteresis_c |-> <<"h", "y", "s", "t", "e", "r", "e", "s", "i", "s", "_", "c">>,
   compressor_min_off_s |-> <<"c", "o", "m", "p", "r", "e", "s", "s", "o", "r", "_", "m", "i", "n", "_", "o", "f", "f", "_", "s">>,
   defrost_interval_s |-> <<"d", "e", "f", "r", "o", "s", "t", "_", "i", "n", "t", "e", "r", "v", "a", "l", "_", "s">>,
   defrost_duration_s |-> <<"d", "e", "f", "r", "o", "s", "t", "_", "d", "u", "r", "a", "t", "i", "o", "n", "_", "s">>]

\* two of the attributes every ControlConfig object has besides its fields
AttrDoc == <<"_", "_", "d", "o", "c", "_", "_">>

AttrClass == <<"_", "_", "c", "l", "a", "s", "s", "_", "_">>

IsFieldName(key) == \E f \in DOMAIN FieldName : FieldName[f] = key

FieldOf(key) == CHOOSE f \in DOMAIN FieldName : FieldName[f] = key

\* hasattr(config, key)
HasAttr(key) == IsFieldName(key) \/ key \in {AttrDoc, AttrClass}

\* _format_value of a config field
FormatConfigValue(config, f) ==
  IF f \in FloatFields THEN FormatFloat(config[f]) ELSE FormatInt(config[f])

(***************************************************************************)
(* uart.py: MockUART with no serial device attached                        *)
(***************************************************************************)

\* payload.decode("utf-8", errors="ignore") of a line from the device:
\* printable bytes decode to their character; the line terminator, which
\* strip() removes, and the bytes that start no valid sequence are left out
DecodeBytes(payload) ==
  LET kept == SelectSeq(payload, IsPrintable)
  IN  [i \in 1..Len(kept) |-> Chr(kept[i])]

\* MockUART(): empty receive and transmit queues
MockUART == [rx_queue |-> <<>>, tx_queue |-> <<>>]

\* MockUART.inject_rx
inject_rx(uart, message) == [uart EXCEPT !.rx_queue = Append(@, Strip(message))]

\* read_line taking the newest queued line instead of the oldest
read_line_newest_first(uart) ==
  IF Len(uart.rx_queue) = 0
  THEN [has |-> FALSE, line |-> <<>>, uart |-> uart]
  ELSE [has |-> TRUE, line |-> uart.rx_queue[Len(uart.rx_queue)],
        uart |-> [uart EXCEPT !.rx_queue = SubSeq(@, 1, Len(@) - 1)]]

\* MockUART.read_line: has = FALSE when it returns None
read_line(uart) ==
  IF Len(uart.rx_queue) = 0
  THEN [has |-> FALSE, line |-> <<>>, uart |-> uart]
  ELSE [has |-> TRUE, line |-> Head(uart.rx_queue),
        uart |-> [uart EXCEPT !.rx_queue = Tail(@)]]

\* MockUART.write_line
write_line(uart, message) == [uart EXCEPT !.tx_queue = Append(@, Strip(message))]

\* MockUART.drain_tx
drain_tx(uart) == [uart EXCEPT !.tx_queue = <<>>]

\* MockUART() with its private fields: the lines sent to the device and not
\* yet seen coming back, and the device ("None", or "open" for a serial.Serial)
SerialUART ==
  [rx_queue |-> <<>>, tx_queue |-> <<>>, _tx_echo_queue |-> <<>>, _serial_port |-> "None"]

\* MockUART.serial_connected
serial_connected(uart) == uart._serial_port # "None"

\* close_serial keeping the device when its close() raises
close_serial_keeping_failed_port(uart, close_raises) ==
  IF uart._serial_port = "None"
  THEN [uart |-> uart, ok |-> TRUE, message |-> "Port already closed"]
  ELSE IF close_raises
  THEN [uart |-> uart, ok |-> FALSE, message |-> "str(exc)"]
  ELSE [uart |-> [uart EXCEPT !._serial_port = "None", !._tx_echo_queue = <<>>],
        ok |-> TRUE, message |-> "Port closed"]

\* MockUART.close_serial; close_raises: the device's close() raises
\* SerialException
close_serial(uart, close_raises) ==
  IF uart._serial_port = "None"
  THEN [uart |-> uart, ok |-> TRUE, message |-> "Port already closed"]
  ELSE IF close_raises
  THEN [uart |-> [uart EXCEPT !._serial_port = "None"], ok |-> FALSE, message |-> "str(exc)"]
  ELSE [uart |-> [uart EXCEPT !._serial_port = "None", !._tx_echo_queue = <<>>],
        ok |-> TRUE, message |-> "Port closed"]

\* the data bits open_serial accepts
ByteSizes == {5, 6, 7, 8}

\* MockUART.open_serial with pyserial installed; opens: serial.Serial(...)
\* returns a device rather than raising
open_serial(uart, bits, opens, close_raises) ==
  IF bits \notin ByteSizes THEN [uart |-> uart, ok |-> FALSE]
  ELSE Let(close_serial(uart, close_raises).uart, LAMBDA closed :
    IF opens THEN [uart |-> [closed EXCEPT !._serial_port = "open"], ok |-> TRUE]
    ELSE [uart |-> [closed EXCEPT !._serial_port = "None"], ok |-> FALSE])

\* while self._tx_echo_queue and self._tx_echo_queue[0] == "": popleft()
RECURSIVE DropEmptyEchoes(_)
DropEmptyEchoes(echoes) ==
  IF Len(echoes) > 0 /\ Head(echoes) = <<>> THEN DropEmptyEchoes(Tail(echoes)) ELSE echoes

\* read_line with a device, the matched echo left at the head of the queue
read_line_serial_keeping_echo(uart, readline, close_raises) ==
  Let(IF uart._serial_port = "None" THEN [uart |-> uart, has |-> FALSE, line |-> <<>>]
      ELSE IF readline.raises
      THEN [uart |-> close_serial(uart, close_raises).uart, has |-> FALSE, line |-> <<>>]
      ELSE Let(Strip(DecodeBytes(readline.payload)), LAMBDA decoded :
        IF Len(decoded) = 0 THEN [uart |-> uart, has |-> FALSE, line |-> <<>>]
        ELSE IF Len(uart._tx_echo_queue) > 0 /\ decoded = Head(uart._tx_echo_queue)
        THEN [uart |-> uart, has |-> FALSE, line |-> <<>>]
        ELSE [uart |-> uart, has |-> TRUE, line |-> decoded]),
      LAMBDA device :
    IF device.has THEN device
    ELSE read_line([device.uart EXCEPT !._tx_echo_queue = DropEmptyEchoes(@)]))

\* MockUART.read_line with a device: readline is what the device's
\* readline() does, [raises |-> BOOLEAN, payload |-> bytes]
read_line_serial(uart, readline, close_raises) ==
  Let(IF uart._serial_port = "None" THEN [uart |-> uart, has |-> FALSE, line |-> <<>>]
      ELSE IF readline.raises
      THEN [uart |-> close_serial(uart, close_raises).uart, has |-> FALSE, line |-> <<>>]
      ELSE Let(Strip(DecodeBytes(readline.payload)), LAMBDA decoded :
        IF Len(decoded) = 0 THEN [uart |-> uart, has |-> FALSE, line |-> <<>>]
        ELSE IF Len(uart._tx_echo_queue) > 0 /\ decoded = Head(uart._tx_echo_queue)
        THEN [uart |-> [uart EXCEPT !._tx_echo_queue = Tail(@)], has |-> FALSE, line |-> <<>>]
        ELSE [uart |-> uart, has |-> TRUE, line |-> decoded]),
      LAMBDA device :
    IF device.has THEN device
    ELSE read_line([device.uart EXCEPT !._tx_echo_queue = DropEmptyEchoes(@)]))

\* MockUART.write_line with a device; write_raises: the device's write()
\* raises SerialException
write_line_serial(uart, message, write_raises, close_raises) ==
  Let(write_line(uart, message), LAMBDA queued :
    IF queued._serial_port = "None" THEN queued
    ELSE IF write_raises THEN close_serial(queued, close_raises).uart
    ELSE [queued EXCEPT !._tx_echo_queue = Append(@, Strip(message))])

(***************************************************************************)
(* controller.py                                                           *)
(***************************************************************************)

\* IOState()
IOState ==
  [air_temp_c |-> 8 * FloatScale, door_open |-> FALSE, power_ok |-> TRUE,
   motion_detected |-> FALSE, panic_button_pressed |-> FALSE,
   compressor_on |-> FALSE, panic_alarm_on |-> FALSE]

\* the fields of IOState in declaration order
IOFields == <<"air_temp_c", "door_open", "power_ok", "motion_detected",
              "panic_button_pressed", "compressor_on", "panic_alarm_on">>

IOFieldName ==
  [air_temp_c |-> <<"a", "i", "r", "_", "t", "e", "m", "p", "_", "c">>,
   door_open |-> <<"d", "o", "o", "r", "_", "o", "p", "e", "n">>,
   power_ok |-> <<"p", "o", "w", "e", "r", "_", "o", "k">>,
   motion_detected |-> <<"m", "o", "t", "i", "o", "n", "_", "d", "e", "t", "e", "c", "t", "e", "d">>,
   panic_button_pressed |-> <<"p", "a", "n", "i", "c", "_", "b", "u", "t", "t", "o", "n", "_", "p", "r", "e", "s", "s", "e", "d">>,
   compressor_on |-> <<"c", "o", "m", "p", "r", "e", "s", "s", "o", "r", "_", "o", "n">>,
   panic_alarm_on |-> <<"p", "a", "n", "i", "c", "_", "a", "l", "a", "r", "m", "_", "o", "n">>]

\* the inputs with the outputs of the control loop accepted among them
InputFields_with_outputs ==
  {"door_open", "power_ok", "motion_detected", "panic_button_pressed", "compressor_on",
   "panic_alarm_on"}

\* the keys SET_INPUT accepts
InputFields == {"door_open", "power_ok", "motion_detected", "panic_button_pressed"}

IsInputName(key) == \E f \in InputFields : IOFieldName[f] = key

InputOf(key) == CHOOSE f \in InputFields : IOFieldName[f] = key

\* the texts of the protocol
TxtSET == <<"S", "E", "T", " ">>

TxtSET_SENSOR == <<"S", "E", "T", "_", "S", "E", "N", "S", "O", "R", " ">>

TxtSET_INPUT == <<"S", "E", "T", "_", "I", "N", "P", "U", "T", " ">>

TxtGET_CONFIG == <<"G", "E", "T", " ", "C", "O", "N", "F", "I", "G">>

TxtGET_STATUS == <<"G", "E", "T", " ", "S", "T", "A", "T", "U", "S">>

TxtGET_IO == <<"G", "E", "T", " ", "I", "O">>

TxtACK == <<"A", "C", "K", " ">>

TxtERR == <<"E", "R", "R", " ">>

TxtSTATUS == <<"S", "T", "A", "T", "U", "S", " ">>

TxtCONFIG == <<"C", "O", "N", "F", "I", "G", " ">>

TxtIO == <<"I", "O", " ">>

TxtUnknownConfig == <<"E", "R", "R", " ", "u", "n", "k", "n", "o", "w", "n", "_", "c", "o", "n", "f", "i", "g", ":">>

TxtUnknownCommand == <<"E", "R", "R", " ", "u", "n", "k", "n", "o", "w", "n", "_", "c", "o", "m", "m", "a", "n", "d", ":">>

TxtUnknownSensor == <<"E", "R", "R", " ", "u", "n", "k", "n", "o", "w", "n", "_", "s", "e", "n", "s", "o", "r", ":">>

TxtUnknownInput == <<"E", "R", "R", " ", "u", "n", "k", "n", "o", "w", "n", "_", "i", "n", "p", "u", "t", ":">>

TxtDimensions == <<"d", "i", "m", "e", "n", "s", "i", "o", "n", "s", "_", "f", "t">>

TxtLength == <<"l", "e", "n", "g", "t", "h">>

TxtWidth == <<"w", "i", "d", "t", "h">>

TxtHeight == <<"h", "e", "i", "g", "h", "t">>

TxtVolume == <<"v", "o", "l", "u", "m", "e", "_", "f", "t", "3">>

TxtConfigKey == <<"c", "o", "n", "f", "i", "g">>

TxtIoKey == <<"i", "o">>

\* RefrigerationController.__init__ with the default config and dimensions,
\* time.time() returning now_s; fault names the exception that left the
\* last step() ("none" when it returned)
RefrigerationController(monitor_uart, io_uart, now_s) ==
  [monitor_uart |-> monitor_uart,
   io_uart |-> io_uart,
   config |-> ControlConfig,
   io |-> IOState,
   last_compressor_off_s |-> now_s,
   last_published_status |-> [set |-> FALSE, text |-> <<>>],
   fault |-> "none"]

\* RefrigerationController._format_value: bool as 1/0, the rest by str()
_format_value(kind, value) ==
  IF kind = "bool" THEN FormatBool(value)
  ELSE IF kind = "float" THEN FormatFloat(value)
  ELSE FormatInt(value)

\* asdict(config), each value with its rendering
AsDictConfig(config) ==
  [i \in 1..Len(ConfigFields) |->
     <<FieldName[ConfigFields[i]],
       _format_value(IF ConfigFields[i] \in FloatFields THEN "float" ELSE "int",
                     config[ConfigFields[i]])>>]

\* asdict(io), each value with its rendering
AsDictIO(io) ==
  [i \in 1..Len(IOFields) |->
     <<IOFieldName[IOFields[i]],
       _format_value(IF IOFields[i] = "air_temp_c" THEN "float" ELSE "bool", io[IOFields[i]])>>]

\* asdict(dimensions), each value with its rendering
AsDictDimensions(d) ==
  <<(<<TxtLength, _format_value("float", d.length)>>),
    (<<TxtWidth, _format_value("float", d.width)>>),
    (<<TxtHeight, _format_value("float", d.height)>>)>>

\* RefrigerationController._flatten_payload for one dict under a prefix
_flatten_payload(entries, prefix) ==
  [i \in 1..Len(entries) |->
     <<(IF Len(prefix) > 0 THEN prefix \o <<".">> \o entries[i][1] ELSE entries[i][1]),
       entries[i][2]>>]

\* RefrigerationController._status_payload, flattened
_status_payload(c) ==
  _flatten_payload(AsDictDimensions(WalkInDimensionsFt), TxtDimensions)
  \o <<(<<TxtVolume, _format_value("float", volume_ft3(WalkInDimensionsFt))>>)>>
  \o _flatten_payload(AsDictConfig(c.config), TxtConfigKey)
  \o _flatten_payload(AsDictIO(c.io), TxtIoKey)

\* RefrigerationController._format_key_values over flattened entries
_format_key_values(entries) ==
  Join([i \in 1..Len(entries) |-> entries[i][1] \o <<"=">> \o entries[i][2]], <<",", " ">>)

\* f"STATUS {...}" as GET STATUS and _publish_status format it
StatusLine(c) == TxtSTATUS \o _format_key_values(_status_payload(c))

\* f"CONFIG {...}"
ConfigLine(c) == TxtCONFIG \o _format_key_values(_flatten_payload(AsDictConfig(c.config), <<>>))

\* f"IO {...}"
IoLine(c) == TxtIO \o _format_key_values(_flatten_payload(AsDictIO(c.io), <<>>))

\* _is_protocol_response with the "ACK " prefix forgotten: an acknowledgement
\* that comes back would be answered as an unknown command
_is_protocol_response_without_ack(line) ==
  \E p \in {TxtERR, TxtSTATUS, TxtCONFIG, TxtIO} : StartsWith(line, p)

\* _is_protocol_response with the "STATUS " prefix forgotten: an echoed
\* status line would be taken for a command
_is_protocol_response_without_status(line) ==
  \E p \in {TxtACK, TxtERR, TxtCONFIG, TxtIO} : StartsWith(line, p)

\* RefrigerationController._is_protocol_response
_is_protocol_response(line) ==
  \E p \in {TxtACK, TxtERR, TxtSTATUS, TxtCONFIG, TxtIO} : StartsWith(line, p)

\* RefrigerationController._parse_sck_frame: None on SCKError
_parse_sck_frame(line) ==
  Let(parse_hex_line(line), LAMBDA parsed :
    IF parsed.err # "none" THEN [is_frame |-> FALSE, frame |-> NoFrame]
    ELSE [is_frame |-> parsed.is_frame, frame |-> parsed.frame])

\* payload.decode("utf-8", errors="ignore"): printable bytes decode to their
\* character; a byte that starts no valid sequence (0x80 and above) is dropped
DecodeUtf8(payload) ==
  LET kept == SelectSeq(payload, IsPrintable)
  IN  [i \in 1..Len(kept) |-> Chr(kept[i])]

\* an exception leaves the method: the rest of step() is skipped
Raise(c, err) == [c EXCEPT !.fault = err]

\* self.monitor_uart.write_line(text)
MonitorWrite(c, text) == [c EXCEPT !.monitor_uart = write_line(@, text)]

\* self.io_uart.write_line(text)
IoWrite(c, text) == [c EXCEPT !.io_uart = write_line(@, text)]

\* self.monitor_uart.write_line(build_status_line(command, text, tid=tid))
MonitorWriteStatus(c, command, text, tid) ==
  Let(build_status_line(command, text, tid), LAMBDA built :
    IF built.err # "none" THEN Raise(c, built.err) ELSE MonitorWrite(c, built.line))

\* self.io_uart.write_line(build_status_line(command, text, tid=tid))
IoWriteStatus(c, command, text, tid) ==
  Let(build_status_line(command, text, tid), LAMBDA built :
    IF built.err # "none" THEN Raise(c, built.err) ELSE IoWrite(c, built.line))

\* SetConfigAttr with the reply built from the text received instead of the
\* value stored
SetConfigAttr_echoing_raw(config, key, raw_value) ==
  IF key = AttrClass
  THEN [err |-> "TypeError", config |-> config, text |-> <<>>]
  ELSE IF key = AttrDoc
  THEN [err |-> "none", config |-> [config EXCEPT !.doc = [own |-> TRUE, text |-> raw_value]],
        text |-> raw_value]
  ELSE Let(FieldOf(key), LAMBDA f :
    Let(IF f \in FloatFields THEN ParseFloat(raw_value) ELSE ParseInt(raw_value),
        LAMBDA typed :
      IF typed.err # "none" THEN [err |-> typed.err, config |-> config, text |-> <<>>]
      ELSE [err |-> "none", config |-> [config EXCEPT ![f] = typed.val],
            text |-> raw_value]))

\* current = getattr(config, key); typed_value = type(current)(raw_value);
\* setattr(config, key, typed_value), for a key with hasattr(config, key).
\* text is str(typed_value).
SetConfigAttr(config, key, raw_value) ==
  IF key = AttrClass
  THEN \* type(current) is type; type(raw_value) is str, which the object
       \* cannot take as its class
       [err |-> "TypeError", config |-> config, text |-> <<>>]
  ELSE IF key = AttrDoc
  THEN [err |-> "none", config |-> [config EXCEPT !.doc = [own |-> TRUE, text |-> raw_value]],
        text |-> raw_value]
  ELSE Let(FieldOf(key), LAMBDA f :
    Let(IF f \in FloatFields THEN ParseFloat(raw_value) ELSE ParseInt(raw_value),
        LAMBDA typed :
      IF typed.err # "none" THEN [err |-> typed.err, config |-> config, text |-> <<>>]
      ELSE [err |-> "none", config |-> [config EXCEPT ![f] = typed.val],
            text |-> IF f \in FloatFields THEN FormatFloat(typed.val)
                     ELSE FormatInt(typed.val)]))

\* RefrigerationController._handle_monitor_sck_command
_handle_monitor_sck_command(c, command, payload, tid) ==
  Let(DecodeUtf8(payload), LAMBDA payload_text :
    LET key == SplitOnce(payload_text, "=")[1]
        raw_value == SplitOnce(payload_text, "=")[2]
    IN  IF command = MONITOR_SET_CONFIG /\ Contains(payload_text, "=")
        THEN IF HasAttr(key)
             THEN Let(SetConfigAttr(c.config, key, raw_value), LAMBDA set :
                    IF set.err # "none" THEN Raise(c, set.err)
                    ELSE MonitorWriteStatus([c EXCEPT !.config = set.config], command,
                                            TxtACK \o key \o <<"=">> \o set.text, tid))
             ELSE MonitorWriteStatus(c, command, TxtUnknownConfig \o key, tid)
        ELSE IF command = MONITOR_GET_CONFIG
        THEN MonitorWriteStatus(c, command, ConfigLine(c), tid)
        ELSE IF command = MONITOR_GET_STATUS
        THEN MonitorWriteStatus(c, command, StatusLine(c), tid)
        ELSE MonitorWriteStatus(c, command,
               TxtUnknownCommand \o (IF Len(payload_text) > 0 THEN payload_text
                                     ELSE NatToStr(command)), tid))

\* RefrigerationController._process_monitor_uart
_process_monitor_uart(c) ==
  Let(read_line(c.monitor_uart), LAMBDA rd :
    Let([c EXCEPT !.monitor_uart = rd.uart], LAMBDA c1 :
      LET line == rd.line
          payload == SplitOnce(line, " ")[2]
          key == SplitOnce(payload, "=")[1]
          raw_value == SplitOnce(payload, "=")[2]
      IN  IF ~rd.has \/ Len(line) = 0 THEN c1
          ELSE Let(_parse_sck_frame(line), LAMBDA sck_frame :
            IF sck_frame.is_frame
            THEN IF sck_frame.frame.frame_type = "S" THEN c1
                 ELSE _handle_monitor_sck_command(c1, sck_frame.frame.command,
                        sck_frame.frame.payload, sck_frame.frame.tid)
            ELSE IF _is_protocol_response(line) THEN c1
            ELSE IF StartsWith(line, TxtSET) /\ Contains(line, "=")
            THEN IF HasAttr(key)
                 THEN Let(SetConfigAttr(c1.config, key, raw_value), LAMBDA set :
                        IF set.err # "none" THEN Raise(c1, set.err)
                        ELSE MonitorWrite([c1 EXCEPT !.config = set.config],
                                          TxtACK \o key \o <<"=">> \o set.text))
                 ELSE MonitorWrite(c1, TxtUnknownConfig \o key)
            ELSE IF line = TxtGET_CONFIG THEN MonitorWrite(c1, ConfigLine(c1))
            ELSE IF line = TxtGET_STATUS THEN MonitorWrite(c1, StatusLine(c1))
            ELSE MonitorWrite(c1, TxtUnknownCommand \o line))))

\* self.io.air_temp_c = float(raw_value)
SetSensor(io, raw_value) ==
  Let(ParseFloat(raw_value), LAMBDA typed :
    [err |-> typed.err,
     io |-> IF typed.err = "none" THEN [io EXCEPT !.air_temp_c = typed.val] ELSE io])

\* setattr(self.io, key, bool(int(raw_value)))
SetInput(io, key, raw_value) ==
  Let(ParseInt(raw_value), LAMBDA typed :
    [err |-> typed.err,
     io |-> IF typed.err = "none" THEN [io EXCEPT ![InputOf(key)] = IntTruth(typed.val)]
            ELSE io])

\* RefrigerationController._handle_io_sck_command
_handle_io_sck_command(c, command, payload, tid) ==
  Let(DecodeUtf8(payload), LAMBDA payload_text :
    LET key == SplitOnce(payload_text, "=")[1]
        raw_value == SplitOnce(payload_text, "=")[2]
    IN  IF command = IO_SET_SENSOR /\ Contains(payload_text, "=")
        THEN IF key = IOFieldName.air_temp_c
             THEN Let(SetSensor(c.io, raw_value), LAMBDA sensor :
                    IF sensor.err # "none" THEN Raise(c, sensor.err)
                    ELSE IoWriteStatus([c EXCEPT !.io = sensor.io], command,
                           TxtACK \o key \o <<"=">> \o FormatFloat(sensor.io.air_temp_c), tid))
             ELSE IoWriteStatus(c, command, TxtUnknownSensor \o key, tid)
        ELSE IF command = IO_SET_INPUT /\ Contains(payload_text, "=")
        THEN IF IsInputName(key)
             THEN Let(SetInput(c.io, key, raw_value), LAMBDA input :
                    IF input.err # "none" THEN Raise(c, input.err)
                    ELSE IoWriteStatus([c EXCEPT !.io = input.io], command,
                           TxtACK \o key \o <<"=">> \o FormatBool(input.io[InputOf(key)]), tid))
             ELSE IoWriteStatus(c, command, TxtUnknownInput \o key, tid)
        ELSE IF command = IO_GET_IO
        THEN IoWriteStatus(c, command, IoLine(c), tid)
        ELSE IoWriteStatus(c, command,
               TxtUnknownCommand \o (IF Len(payload_text) > 0 THEN payload_text
                                     ELSE NatToStr(command)), tid))

\* RefrigerationController._process_io_uart
_process_io_uart(c) ==
  Let(read_line(c.io_uart), LAMBDA rd :
    Let([c EXCEPT !.io_uart = rd.uart], LAMBDA c1 :
      LET line == rd.line
          payload == SplitOnce(line, " ")[2]
          key == SplitOnce(payload, "=")[1]
          raw_value == SplitOnce(payload, "=")[2]
      IN  IF ~rd.has \/ Len(line) = 0 THEN c1
          ELSE Let(_parse_sck_frame(line), LAMBDA sck_frame :
            IF sck_frame.is_frame
            THEN IF sck_frame.frame.frame_type = "S" THEN c1
                 ELSE _handle_io_sck_command(c1, sck_frame.frame.command,
                        sck_frame.frame.payload, sck_frame.frame.tid)
            ELSE IF _is_protocol_response(line) THEN c1
            ELSE IF StartsWith(line, TxtSET_SENSOR) /\ Contains(line, "=")
            THEN IF key = IOFieldName.air_temp_c
                 THEN Let(SetSensor(c1.io, raw_value), LAMBDA sensor :
                        IF sensor.err # "none" THEN Raise(c1, sensor.err)
                        ELSE IoWrite([c1 EXCEPT !.io = sensor.io],
                               TxtACK \o key \o <<"=">> \o FormatFloat(sensor.io.air_temp_c)))
                 ELSE IoWrite(c1, TxtUnknownSensor \o key)
            ELSE IF StartsWith(line, TxtSET_INPUT) /\ Contains(line, "=")
            THEN IF IsInputName(key)
                 THEN Let(SetInput(c1.io, key, raw_value), LAMBDA input :
                        IF input.err # "none" THEN Raise(c1, input.err)
                        ELSE IoWrite([c1 EXCEPT !.io = input.io],
                               TxtACK \o key \o <<"=">> \o FormatBool(input.io[InputOf(key)])))
                 ELSE IoWrite(c1, TxtUnknownInput \o key)
            ELSE IF line = TxtGET_IO THEN IoWrite(c1, IoLine(c1))
            ELSE IoWrite(c1, TxtUnknownCommand \o line))))

\* _set_compressor recording the time whenever it turns the compressor off,
\* running or not
_set_compressor_stamping_always(c, state, now_s) ==
  [c EXCEPT !.last_compressor_off_s = IF ~state THEN now_s ELSE @,
            !.io.compressor_on = state]

\* RefrigerationController._set_compressor
_set_compressor(c, state, now_s) ==
  [c EXCEPT !.last_compressor_off_s = IF ~state /\ c.io.compressor_on THEN now_s ELSE @,
            !.io.compressor_on = state]

\* _run_control_logic with the power-loss override left out: the thermostat
\* runs whether or not there is power
_run_control_logic_ignoring_power(c, now_s) ==
  LET c1 == [c EXCEPT !.io.panic_alarm_on = c.io.panic_button_pressed]
      upper == c1.config.target_temp_c + c1.config.hysteresis_c
      lower == c1.config.target_temp_c - c1.config.hysteresis_c
      min_off_elapsed == GeInt(now_s - c1.last_compressor_off_s, c1.config.compressor_min_off_s)
  IN  IF c1.io.air_temp_c >= upper
      THEN IF min_off_elapsed THEN [c1 EXCEPT !.io.compressor_on = TRUE] ELSE c1
      ELSE IF c1.io.air_temp_c <= lower THEN _set_compressor(c1, FALSE, now_s)
      ELSE c1

\* _run_control_logic with the minimum off-time left out: a warm room turns
\* the compressor on at once
_run_control_logic_ignoring_min_off(c, now_s) ==
  LET c1 == [c EXCEPT !.io.panic_alarm_on = c.io.panic_button_pressed]
      upper == c1.config.target_temp_c + c1.config.hysteresis_c
      lower == c1.config.target_temp_c - c1.config.hysteresis_c
  IN  IF ~c1.io.power_ok THEN _set_compressor(c1, FALSE, now_s)
      ELSE IF c1.io.air_temp_c >= upper THEN [c1 EXCEPT !.io.compressor_on = TRUE]
      ELSE IF c1.io.air_temp_c <= lower THEN _set_compressor(c1, FALSE, now_s)
      ELSE c1

\* _run_control_logic with the alarm latched: once raised it stays
_run_control_logic_latching_alarm(c, now_s) ==
  LET c1 == [c EXCEPT !.io.panic_alarm_on = @ \/ c.io.panic_button_pressed]
      upper == c1.config.target_temp_c + c1.config.hysteresis_c
      lower == c1.config.target_temp_c - c1.config.hysteresis_c
      min_off_elapsed == GeInt(now_s - c1.last_compressor_off_s, c1.config.compressor_min_off_s)
  IN  IF ~c1.io.power_ok THEN _set_compressor(c1, FALSE, now_s)
      ELSE IF c1.io.air_temp_c >= upper
      THEN IF min_off_elapsed THEN [c1 EXCEPT !.io.compressor_on = TRUE] ELSE c1
      ELSE IF c1.io.air_temp_c <= lower THEN _set_compressor(c1, FALSE, now_s)
      ELSE c1

\* _run_control_logic as three branches side by side: the off branch is tried
\* whenever the on branch is not taken
_run_control_logic_three_branches(c, now_s) ==
  LET c1 == [c EXCEPT !.io.panic_alarm_on = c.io.panic_button_pressed]
      upper == c1.config.target_temp_c + c1.config.hysteresis_c
      lower == c1.config.target_temp_c - c1.config.hysteresis_c
      min_off_elapsed == GeInt(now_s - c1.last_compressor_off_s, c1.config.compressor_min_off_s)
  IN  IF ~c1.io.power_ok THEN _set_compressor(c1, FALSE, now_s)
      ELSE IF c1.io.air_temp_c >= upper /\ min_off_elapsed
      THEN [c1 EXCEPT !.io.compressor_on = TRUE]
      ELSE IF c1.io.air_temp_c <= lower THEN _set_compressor(c1, FALSE, now_s)
      ELSE c1

\* _run_control_logic without the dead band: below the upper threshold the
\* compressor is turned off
_run_control_logic_without_dead_band(c, now_s) ==
  LET c1 == [c EXCEPT !.io.panic_alarm_on = c.io.panic_button_pressed]
      upper == c1.config.target_temp_c + c1.config.hysteresis_c
      min_off_elapsed == GeInt(now_s - c1.last_compressor_off_s, c1.config.compressor_min_off_s)
  IN  IF ~c1.io.power_ok THEN _set_compressor(c1, FALSE, now_s)
      ELSE IF c1.io.air_temp_c >= upper
      THEN IF min_off_elapsed THEN [c1 EXCEPT !.io.compressor_on = TRUE] ELSE c1
      ELSE _set_compressor(c1, FALSE, now_s)

\* RefrigerationController._run_control_logic, time.time() returning now_s
_run_control_logic(c, now_s) ==
  LET c1 == [c EXCEPT !.io.panic_alarm_on = c.io.panic_button_pressed]
      upper == c1.config.target_temp_c + c1.config.hysteresis_c
      lower == c1.config.target_temp_c - c1.config.hysteresis_c
      min_off_elapsed == GeInt(now_s - c1.last_compressor_off_s, c1.config.compressor_min_off_s)
  IN  IF ~c1.io.power_ok THEN _set_compressor(c1, FALSE, now_s)
      ELSE IF c1.io.air_temp_c >= upper
      THEN IF min_off_elapsed THEN [c1 EXCEPT !.io.compressor_on = TRUE] ELSE c1
      ELSE IF c1.io.air_temp_c <= lower THEN _set_compressor(c1, FALSE, now_s)
      ELSE c1

\* _publish_status writing the status on the IO channel as well
_publish_status_on_both_channels(c) ==
  Let(StatusLine(c), LAMBDA status_line :
    IF c.last_published_status.set /\ status_line = c.last_published_status.text THEN c
    ELSE [IoWrite(MonitorWrite(c, status_line), status_line) EXCEPT
            !.last_published_status = [set |-> TRUE, text |-> status_line]])

\* _publish_status with the cache never updated: every call writes the line
_publish_status_without_cache(c) ==
  Let(StatusLine(c), LAMBDA status_line :
    IF c.last_published_status.set /\ status_line = c.last_published_status.text THEN c
    ELSE MonitorWrite(c, status_line))

\* RefrigerationController._publish_status
_publish_status(c) ==
  Let(StatusLine(c), LAMBDA status_line :
    IF c.last_published_status.set /\ status_line = c.last_published_status.text THEN c
    ELSE [MonitorWrite(c, status_line) EXCEPT
            !.last_published_status = [set |-> TRUE, text |-> status_line]])

\* step with the control loop run before the IO channel is read
step_control_before_io(c, now_s) ==
  Let(_process_monitor_uart(c), LAMBDA c1 :
    Let(IF c1.fault = "none" THEN _run_control_logic(c1, now_s) ELSE c1, LAMBDA c2 :
      Let(IF c2.fault = "none" THEN _process_io_uart(c2) ELSE c2, LAMBDA c3 :
        Let(IF c3.fault = "none" THEN _publish_status(c3) ELSE c3, LAMBDA c4 :
          [after_monitor |-> c1, after_io |-> c3, after_control |-> c3, final |-> c4]))))

\* RefrigerationController.step: each call runs unless an earlier one raised.
\* The controller after each of the four calls; final is the one step() leaves.
step(c, now_s) ==
  Let(_process_monitor_uart(c), LAMBDA c1 :
    Let(IF c1.fault = "none" THEN _process_io_uart(c1) ELSE c1, LAMBDA c2 :
      Let(IF c2.fault = "none" THEN _run_control_logic(c2, now_s) ELSE c2, LAMBDA c3 :
        Let(IF c3.fault = "none" THEN _publish_status(c3) ELSE c3, LAMBDA c4 :
          [after_monitor |-> c1, after_io |-> c2, after_control |-> c3, final |-> c4]))))

(***************************************************************************)
(* The lines the drivers of the controller inject                          *)
(***************************************************************************)

\* most lines waiting in a receive queue
MaxQueue == 1

\* the clock is read in whole seconds from the construction of the
\* controller (second 0) up to MaxNow, and advances TickS at a time
MaxNow == 180

TickS == 60

\* payload length of the long Command frame
LongPayloadLen == 1001

\* number of digits of the long integer
LongDigits == 1000

Eq == <<"=">>

Repeat(ch, n) == [i \in 1..n |-> ch]

\* build_command_line(command, payload_text, tid=tid, version=version)
CommandLine(command, payload_text, tid, version) ==
  build_command_line(command, payload_text, tid, version).line

\* monitor lines, text form
MonSetMinOff60 == TxtSET \o FieldName.compressor_min_off_s \o Eq \o <<"6", "0">>

MonSetTarget == TxtSET \o FieldName.target_temp_c \o Eq \o <<"3", ".", "5">>

MonSetTargetWhole == TxtSET \o FieldName.target_temp_c \o Eq \o <<"3">>
\* a band of no width, and one turned inside out
MonSetHysteresisZero == TxtSET \o FieldName.hysteresis_c \o Eq \o <<"0">>
MonSetHysteresisNegative == TxtSET \o FieldName.hysteresis_c \o Eq \o <<"-", "1">>
MonSetTargetBad == TxtSET \o FieldName.target_temp_c \o Eq \o <<"a", "b", "c">>

MonSetMinOffBad == TxtSET \o FieldName.compressor_min_off_s \o Eq \o <<"5", ".", "5">>

MonSetMinOffLong == TxtSET \o FieldName.compressor_min_off_s \o Eq \o Repeat("9", LongDigits)

MonSetFoo == TxtSET \o <<"f", "o", "o", "=", "1">>

MonSetDoc == TxtSET \o AttrDoc \o Eq \o <<"x">>

MonSetClass == TxtSET \o AttrClass \o Eq \o <<"x">>

MonUnknown == <<"h", "h", "h", "h">>

MonEchoedErr == TxtUnknownCommand \o <<"h", "h", "h", "h">>

\* monitor lines, framed form
FrmSetTarget ==
  CommandLine(MONITOR_SET_CONFIG, FieldName.target_temp_c \o Eq \o <<"3", ".", "5">>, 7, DEFAULT_VERSION)

FrmSetTargetBad ==
  CommandLine(MONITOR_SET_CONFIG, FieldName.target_temp_c \o Eq \o <<"a", "b", "c">>, 8, DEFAULT_VERSION)

FrmSetFoo == CommandLine(MONITOR_SET_CONFIG, <<"f", "o", "o", "=", "1">>, 9, DEFAULT_VERSION)

FrmGetConfig == CommandLine(MONITOR_GET_CONFIG, <<>>, 1, DEFAULT_VERSION)

FrmGetConfigV5 == CommandLine(MONITOR_GET_CONFIG, <<>>, 255, 5)

FrmGetStatus == CommandLine(MONITOR_GET_STATUS, <<>>, 0, DEFAULT_VERSION)

FrmUnknown == CommandLine(39321, <<>>, 3, DEFAULT_VERSION)

FrmUnknownLong == CommandLine(39321, Repeat("a", LongPayloadLen), 3, DEFAULT_VERSION)

FrmStatus == build_status_line(MONITOR_GET_STATUS, TxtSTATUS \o <<"x">>, 4).line

\* IO lines, text form
IoSetTempHigh == TxtSET_SENSOR \o IOFieldName.air_temp_c \o Eq \o <<"7", ".", "5">>

IoSetTempLow == TxtSET_SENSOR \o IOFieldName.air_temp_c \o Eq \o <<"0", ".", "5">>

\* the default target temperature
IoSetTempAtTarget == TxtSET_SENSOR \o IOFieldName.air_temp_c \o Eq \o <<"2", ".", "0">>
IoSetTempBad == TxtSET_SENSOR \o IOFieldName.air_temp_c \o Eq \o <<"h", "o", "t">>

IoSetHumidity == TxtSET_SENSOR \o <<"h", "u", "m", "i", "d", "i", "t", "y", "=", "3">>

IoPowerOff == TxtSET_INPUT \o IOFieldName.power_ok \o Eq \o <<"0">>

IoPowerOn == TxtSET_INPUT \o IOFieldName.power_ok \o Eq \o <<"1">>

IoDoorOpen == TxtSET_INPUT \o IOFieldName.door_open \o Eq \o <<"1">>

IoPanicOn == TxtSET_INPUT \o IOFieldName.panic_button_pressed \o Eq \o <<"1">>
IoPanicOff == TxtSET_INPUT \o IOFieldName.panic_button_pressed \o Eq \o <<"0">>
IoDoorBad == TxtSET_INPUT \o IOFieldName.door_open \o Eq \o <<"x">>

IoSetCompressor == TxtSET_INPUT \o IOFieldName.compressor_on \o Eq \o <<"1">>

IoEchoedAck == TxtACK \o IOFieldName.door_open \o Eq \o <<"1">>

\* IO lines, framed form
FrmDoorOpen == CommandLine(IO_SET_INPUT, IOFieldName.door_open \o Eq \o <<"1">>, 9, DEFAULT_VERSION)

FrmGetIo == CommandLine(IO_GET_IO, <<>>, 2, 7)
FrmPanicOn ==
  CommandLine(IO_SET_INPUT, IOFieldName.panic_button_pressed \o Eq \o <<"1">>, 6, DEFAULT_VERSION)

\* commands naming the two outputs of the control loop as inputs
IoSetAlarm == TxtSET_INPUT \o IOFieldName.panic_alarm_on \o Eq \o <<"1">>
FrmSetCompressor ==
  CommandLine(IO_SET_INPUT, IOFieldName.compressor_on \o Eq \o <<"1">>, 8, DEFAULT_VERSION)
FrmSetAlarm ==
  CommandLine(IO_SET_INPUT, IOFieldName.panic_alarm_on \o Eq \o <<"1">>, 8, DEFAULT_VERSION)
FrmSetTemp == CommandLine(IO_SET_SENSOR, IOFieldName.air_temp_c \o Eq \o <<"7", ".", "5">>, 5, DEFAULT_VERSION)

\* lines with the frame marker that are no frame: the packet of a GET CONFIG
\* Command frame with one part spoilt
GetConfigPacket == encode_frame(SCKFrame(DEFAULT_VERSION, 1, "C", MONITOR_GET_CONFIG, <<>>)).packet

\* a packet body closed with the CRC of its contents and ETX
Sealed(body) ==
  body \o ToBytes2(crc16_ibm(SubSeq(body, 4, 5) \o SubSeq(body, 7, Len(body)))) \o <<ETX>>

BadHex == FRAME_PREFIX \o <<" ", "0", "2", " ", "z", "z">>
BadShort == FRAME_PREFIX \o <<" ", "0", "2", " ", "0", "3">>
BadStx == format_hex_line([GetConfigPacket EXCEPT ![1] = ETX])
BadEtx == format_hex_line([GetConfigPacket EXCEPT ![Len(GetConfigPacket)] = STX])
BadCrc == format_hex_line([GetConfigPacket EXCEPT ![Len(GetConfigPacket) - 1] = (@ + 1) % 256])
BadLength == format_hex_line([GetConfigPacket EXCEPT ![4] = @ + 1])
BadType ==
  format_hex_line(Sealed(<<STX>> \o ToBytes2(DEFAULT_VERSION) \o ToBytes2(3) \o <<1, Ord("X")>>
                         \o ToBytes2(MONITOR_GET_CONFIG)))
BadByte == FRAME_PREFIX \o <<" ", "1", "0", "0">>

\* A run injects the lines of one workload.
Workloads ==
  {"thermostat", "config", "inputs", "frames", "loopback", "long", "malformed", "panic",
   "hysteresis", "crossed"}

MonitorLines(w) ==
  CASE w = "thermostat" -> {MonSetMinOff60}
    [] w = "config" -> {MonSetTarget, MonSetTargetWhole, MonSetTargetBad, MonSetMinOffBad, MonSetFoo, MonSetDoc,
                        MonSetClass}
    [] w = "inputs" -> {MonSetTarget, MonUnknown}
    [] w = "frames" -> {FrmSetTarget, FrmSetTargetBad, FrmSetFoo, FrmGetConfigV5, FrmGetStatus,
                        FrmUnknown, FrmStatus}
    [] w = "loopback" -> {TxtGET_STATUS, TxtGET_CONFIG, FrmGetConfig, MonSetTarget, MonUnknown,
                          MonEchoedErr}
    [] w = "long" -> {FrmUnknownLong, MonSetMinOffLong, FrmGetConfig}
    [] w = "panic" -> {MonSetTargetBad}
    [] w = "crossed" -> {FrmDoorOpen, FrmSetTemp, FrmGetIo, IoDoorOpen, IoSetTempLow,
                         FrmSetCompressor}
    [] w = "hysteresis" -> {MonSetHysteresisZero, MonSetHysteresisNegative, MonSetMinOff60,
                            MonSetMinOffLong}
    [] w = "malformed" -> {BadHex, BadShort, BadStx, BadEtx, BadCrc, BadLength, BadType, BadByte,
                           FrmGetConfig}
    [] w = "cycling" -> {MonSetMinOff60, MonSetTargetBad}

IoLines(w) ==
  CASE w = "thermostat" -> {IoSetTempHigh, IoSetTempLow, IoPowerOff, IoPowerOn}
    [] w = "config" -> {IoDoorBad}
    [] w = "inputs" -> {IoDoorOpen, IoDoorBad, IoSetCompressor, IoSetHumidity, IoSetTempBad}
    [] w = "frames" -> {FrmDoorOpen, FrmSetTemp, TxtGET_IO}
    [] w = "loopback" -> {TxtGET_IO, FrmGetIo, IoDoorOpen, IoSetCompressor, IoEchoedAck}
    [] w = "long" -> {TxtGET_IO}
    [] w = "malformed" -> {BadHex, BadCrc, BadType, FrmGetIo}
    [] w = "panic" -> {IoPanicOn, IoPanicOff, FrmPanicOn, IoPowerOff, IoSetTempLow}
    [] w = "hysteresis" -> {IoSetTempAtTarget, IoSetTempLow}
    [] w = "crossed" -> {FrmSetTarget, FrmGetConfig, FrmGetStatus, MonSetTarget,
                         IoSetCompressor, IoSetAlarm, FrmSetCompressor, FrmSetAlarm}
    [] w = "cycling" -> {IoSetTempHigh, IoSetTempLow, IoPowerOff, IoPowerOn}

\* the clock advances only in the workloads about the thermostat
Horizon(w) == IF w \in {"thermostat", "hysteresis", "cycling"} THEN MaxNow ELSE 0

\* the lines the controller wrote come back only in the loopback workload
\* and in the workload of the long runs
Echoing(w) == w \in {"loopback", "cycling"}

(***************************************************************************)
(* The state machine                                                       *)
(***************************************************************************)

VARIABLES
  monitor_uart,            \* RefrigerationController.monitor_uart
  io_uart,                 \* RefrigerationController.io_uart
  config,                  \* RefrigerationController.config
  io,                      \* RefrigerationController.io
  last_compressor_off_s,   \* RefrigerationController.last_compressor_off_s
  last_published_status,   \* RefrigerationController._last_published_status
  now,                     \* what time.time() returns
  workload,                \* the lines this run injects
  rx_origin,               \* for each queued line, "ext" or "echo" (history)
  ev                       \* what the last step() read and wrote (history)

\* The codec on its own: a frame is encoded, the packet may have one byte
\* changed on the way, and is decoded.
VARIABLES
  frame,                   \* the SCKFrame handed to encode_frame
  packet,                  \* the bytes encode_frame returned, as they travel
  outcome                  \* how far the packet got and what the decoder returned

\* The transport on its own: two MockUART endpoints, either bridged to each
\* other or backed by a serial device that may fail.
VARIABLES
  uart,                    \* the two MockUART objects
  peered,                  \* the two endpoints are connected to each other
  media,                   \* what this run attaches: "peer" or "serial"
  wire,                    \* lines written and read since the connection (history)
  call                     \* the last call on an endpoint and its result (history)

codec_vars == <<frame, packet, outcome>>

transport_vars == <<uart, peered, media, wire, call>>

bench_vars == <<codec_vars, transport_vars>>

vars == <<monitor_uart, io_uart, config, io, last_compressor_off_s,
          last_published_status, now, workload, rx_origin, ev, bench_vars>>

\* nothing encoded or decoded
NoResult ==
  [stage |-> "idle", position |-> 0, err |-> "none", frame |-> NoFrame,
   again |-> [err |-> "none", packet |-> <<>>]]

\* the codec is not in use
CodecParked == frame = NoFrame /\ packet = <<>> /\ outcome = NoResult

Endpoints == {"monitor", "io"}

Other(e) == IF e = "monitor" THEN "io" ELSE "monitor"

NoTraffic ==
  [sent |-> [e \in Endpoints |-> <<>>], got |-> [e \in Endpoints |-> <<>>], echoes |-> <<>>]

NoCall ==
  [op |-> "none", who |-> "monitor", has |-> FALSE, line |-> <<>>, ok |-> TRUE,
   device_failed |-> FALSE, close_failed |-> FALSE, before |-> SerialUART,
   device |-> [raises |-> FALSE, payload |-> <<>>], origin |-> "none"]

\* the transport is not in use
TransportParked ==
  /\ uart = [e \in Endpoints |-> SerialUART]
  /\ peered = FALSE
  /\ media = "none"
  /\ wire = NoTraffic
  /\ call = NoCall

BenchParked == CodecParked /\ TransportParked

NoLine == [has |-> FALSE, line |-> <<>>]

\* the controller object made of the variables
Controller ==
  [monitor_uart |-> monitor_uart, io_uart |-> io_uart, config |-> config, io |-> io,
   last_compressor_off_s |-> last_compressor_off_s,
   last_published_status |-> last_published_status, fault |-> "none"]

\* the control state of a controller record
Core(c) == <<c.config, c.io, c.last_compressor_off_s, c.last_published_status>>

\* the outcome of a step(): whether it raised, whether it changed config or
\* IO state, whether it wrote an unsolicited status line
NoOutcome == [ran |-> FALSE, fault |-> "none", changed |-> FALSE, published |-> FALSE]

\* The history of the last step().  ran, fault, changed and published
\* describe the last call, and prev the call before it, for as long as the
\* run lasts; the other fields are kept while fresh, until the driver's next
\* injection or clock tick.
NoStep ==
  [ran |-> FALSE, fresh |-> FALSE, fault |-> "none", changed |-> FALSE, published |-> FALSE,
   prev |-> NoOutcome,
   mon_read |-> NoLine, io_read |-> NoLine, mon_origin |-> "none", io_origin |-> "none",
   mon_reply |-> <<>>, io_reply |-> <<>>, status_out |-> <<>>,
   mon_changed |-> FALSE, io_changed |-> FALSE, was_on |-> FALSE, had_power |-> TRUE,
   last_status |-> [set |-> FALSE, text |-> <<>>]]

Forget(e) ==
  [NoStep EXCEPT !.ran = e.ran, !.fault = e.fault, !.changed = e.changed,
                 !.published = e.published, !.prev = e.prev,
                 !.last_status = e.last_status]

Constructed ==
  LET c == RefrigerationController(MockUART, MockUART, 0)
  IN  /\ now = 0
      /\ monitor_uart = c.monitor_uart
      /\ io_uart = c.io_uart
      /\ config = c.config
      /\ io = c.io
      /\ last_compressor_off_s = c.last_compressor_off_s
      /\ last_published_status = c.last_published_status
      /\ rx_origin = [monitor |-> <<>>, io |-> <<>>]
      /\ ev = NoStep
      /\ BenchParked

Init == workload \in Workloads /\ Constructed

\* a driver injects a line on the monitor channel: monitor_uart.inject_rx(line)
InjectMonitor ==
  /\ Len(monitor_uart.rx_queue) < MaxQueue
  /\ \E line \in MonitorLines(workload) :
       /\ monitor_uart' = inject_rx(monitor_uart, line)
       /\ rx_origin' = [rx_origin EXCEPT !.monitor = Append(@, "ext")]
  /\ ev' = Forget(ev)
  /\ UNCHANGED <<bench_vars, io_uart, config, io, last_compressor_off_s, last_published_status,
                 now, workload>>

\* a driver injects a line on the IO channel: io_uart.inject_rx(line)
InjectIo ==
  /\ Len(io_uart.rx_queue) < MaxQueue
  /\ \E line \in IoLines(workload) :
       /\ io_uart' = inject_rx(io_uart, line)
       /\ rx_origin' = [rx_origin EXCEPT !.io = Append(@, "ext")]
  /\ ev' = Forget(ev)
  /\ UNCHANGED <<bench_vars, monitor_uart, config, io, last_compressor_off_s, last_published_status,
                 now, workload>>

\* the lines the last step() wrote, on the monitor channel and on the IO
\* channel
StepOutput == ev.mon_reply \o ev.status_out \o ev.io_reply

\* a line the last step() wrote on either channel comes back on the read
\* side of the monitor channel (its own echo, or the two channels wired
\* across)
EchoMonitor ==
  /\ Echoing(workload) /\ ev.fresh
  /\ Len(monitor_uart.rx_queue) < MaxQueue
  /\ \E line \in {StepOutput[i] : i \in 1..Len(StepOutput)} :
       /\ monitor_uart' = inject_rx(monitor_uart, line)
       /\ rx_origin' = [rx_origin EXCEPT !.monitor = Append(@, "echo")]
  /\ UNCHANGED <<bench_vars, io_uart, config, io, last_compressor_off_s, last_published_status,
                 now, workload, ev>>

\* a line the last step() wrote on either channel comes back on the read
\* side of the IO channel
EchoIo ==
  /\ Echoing(workload) /\ ev.fresh
  /\ Len(io_uart.rx_queue) < MaxQueue
  /\ \E line \in {StepOutput[i] : i \in 1..Len(StepOutput)} :
       /\ io_uart' = inject_rx(io_uart, line)
       /\ rx_origin' = [rx_origin EXCEPT !.io = Append(@, "echo")]
  /\ UNCHANGED <<bench_vars, monitor_uart, config, io, last_compressor_off_s, last_published_status,
                 now, workload, ev>>

\* time passes
Tick ==
  /\ now + TickS <= Horizon(workload)
  /\ now' = now + TickS
  /\ ev' = Forget(ev)
  /\ UNCHANGED <<bench_vars, monitor_uart, io_uart, config, io, last_compressor_off_s,
                 last_published_status, workload, rx_origin>>

\* the lines a call appended to a transmit queue
Written(before, after) == SubSeq(after.tx_queue, Len(before.tx_queue) + 1, Len(after.tx_queue))

\* The state after UARTWindow.step_controller: controller.step(), then
\* drain_tx() on both UARTs.  The history records what the call read and
\* what it wrote before the queues were drained.
AfterStep ==
  Let(step(Controller, now), LAMBDA run :
  Let(Controller, LAMBDA c0 :
  Let(run.after_monitor, LAMBDA c1 :
  Let(run.after_io, LAMBDA c2 :
  Let(run.after_control, LAMBDA c3 :
  Let(run.final, LAMBDA c4 :
  Let(c1.fault = "none", LAMBDA io_was_read :
  Let(Written(c3.monitor_uart, c4.monitor_uart), LAMBDA published :
    [monitor_uart |-> drain_tx(c4.monitor_uart),
     io_uart |-> drain_tx(c4.io_uart),
     config |-> c4.config,
     io |-> c4.io,
     last_compressor_off_s |-> c4.last_compressor_off_s,
     last_published_status |-> c4.last_published_status,
     rx_origin |->
       [monitor |-> IF Len(rx_origin.monitor) > 0 THEN Tail(rx_origin.monitor) ELSE <<>>,
        io |-> IF io_was_read /\ Len(rx_origin.io) > 0 THEN Tail(rx_origin.io)
               ELSE rx_origin.io],
     ev |-> [ran |-> TRUE,
             fresh |-> TRUE,
             fault |-> c4.fault,
             changed |-> <<c4.config, c4.io>> # <<c0.config, c0.io>>,
             published |-> Len(published) > 0,
             prev |-> [ran |-> ev.ran, fault |-> ev.fault, changed |-> ev.changed,
                       published |-> ev.published],
             mon_read |-> [has |-> read_line(c0.monitor_uart).has,
                           line |-> read_line(c0.monitor_uart).line],
             io_read |-> IF io_was_read
                         THEN [has |-> read_line(c1.io_uart).has,
                               line |-> read_line(c1.io_uart).line]
                         ELSE NoLine,
             mon_origin |-> IF Len(rx_origin.monitor) > 0 THEN Head(rx_origin.monitor)
                            ELSE "none",
             io_origin |-> IF io_was_read /\ Len(rx_origin.io) > 0
                           THEN Head(rx_origin.io) ELSE "none",
             mon_reply |-> Written(c0.monitor_uart, c1.monitor_uart),
             io_reply |-> Written(c1.io_uart, c2.io_uart),
             status_out |-> published,
             mon_changed |-> Core(c1) # Core(c0),
             io_changed |-> Core(c2) # Core(c1),
             was_on |-> c0.io.compressor_on,
             had_power |-> c0.io.power_ok,
             last_status |-> IF Len(published) > 0
                             THEN [set |-> TRUE, text |-> published[Len(published)]]
                             ELSE ev.last_status]]))))))))

\* the driver's timer tick
Step ==
  \E after \in {AfterStep} :
    /\ monitor_uart' = after.monitor_uart
    /\ io_uart' = after.io_uart
    /\ config' = after.config
    /\ io' = after.io
    /\ last_compressor_off_s' = after.last_compressor_off_s
    /\ last_published_status' = after.last_published_status
    /\ rx_origin' = after.rx_origin
    /\ ev' = after.ev
    /\ UNCHANGED <<bench_vars, now, workload>>

Next ==
  \/ InjectMonitor
  \/ InjectIo
  \/ EchoMonitor
  \/ EchoIo
  \/ Tick
  \/ Step

Spec == Init /\ [][Next]_vars

\* The long run: the driver's timer keeps calling step() and the clock keeps
\* advancing (up to the horizon); a driver may inject lines for ever, or
\* stop.  The lines are those of the thermostat and one that makes step()
\* raise, and what the controller writes may come back on either channel.
FairInit == workload = "cycling" /\ Constructed

\* a call of step() now would leave every variable as it is
StepIdle ==
  \A after \in {AfterStep} :
    /\ monitor_uart = after.monitor_uart
    /\ io_uart = after.io_uart
    /\ config = after.config
    /\ io = after.io
    /\ last_compressor_off_s = after.last_compressor_off_s
    /\ last_published_status = after.last_published_status
    /\ rx_origin = after.rx_origin
    /\ ev = after.ev

\* the transition is a call of step(): the history is fresh and no line was
\* added to a receive queue (an injection or a tick makes the history stale,
\* a line coming back lengthens a queue)
StepTaken ==
  /\ ev'.fresh
  /\ Len(monitor_uart'.rx_queue) <= Len(monitor_uart.rx_queue)
  /\ Len(io_uart'.rx_queue) <= Len(io_uart.rx_queue)

\* weak fairness of Step, WF_vars(Step), written out with the enabling
\* condition of <<Step>>_vars computed from the state
StepKeepsBeingCalled == []<>StepIdle \/ []<><<StepTaken>>_vars

SpecFair == FairInit /\ [][Next]_vars /\ WF_vars(Tick) /\ StepKeepsBeingCalled

(***************************************************************************)
(* The codec on its own                                                    *)
(***************************************************************************)

\* longest payload in a generated frame, the longest payload of all apart
MaxPayloadLen == 2

\* the longest payload encode_frame accepts: length = 3 + len(payload)
LongestPayload == MaxLength - 3

\* the frames handed to encode_frame: every kind, with the extreme values of
\* each field
Payloads ==
  UNION {[1..n -> {0, 255}] : n \in 0..MaxPayloadLen} \cup {Repeat(ETX, LongestPayload)}

Frames ==
  {SCKFrame(version, tid, frame_type, command, payload) :
     version \in {DEFAULT_VERSION, 65535}, tid \in {0, 255}, frame_type \in {"C", "S"},
     command \in {MONITOR_SET_CONFIG, 65535}, payload \in Payloads}

\* the values a byte may be changed to: every single-bit flip, the next
\* value and the complement
Substitutes(byte) ==
  ({ToggleBit(byte, k) : k \in 0..7} \cup {(byte + 1) % 256, 255 - byte}) \ {byte}

\* the controller is constructed and left alone
ControllerParked ==
  LET c == RefrigerationController(MockUART, MockUART, 0)
  IN  /\ workload = "none"
      /\ now = 0
      /\ monitor_uart = c.monitor_uart
      /\ io_uart = c.io_uart
      /\ config = c.config
      /\ io = c.io
      /\ last_compressor_off_s = c.last_compressor_off_s
      /\ last_published_status = c.last_published_status
      /\ rx_origin = [monitor |-> <<>>, io |-> <<>>]
      /\ ev = NoStep

controller_vars == <<monitor_uart, io_uart, config, io, last_compressor_off_s,
                     last_published_status, now, workload, rx_origin, ev>>

CodecInit ==
  /\ ControllerParked
  /\ TransportParked
  /\ frame \in Frames
  /\ packet = <<>>
  /\ outcome = [NoResult EXCEPT !.stage = "new"]

\* encode_frame(frame)
Encode ==
  /\ outcome.stage = "new"
  /\ \E enc \in {encode_frame(frame)} :
       /\ packet' = enc.packet
       /\ outcome' = [outcome EXCEPT !.stage = "encoded", !.err = enc.err]
  /\ UNCHANGED <<frame, controller_vars, transport_vars>>

\* one byte of the packet is changed to a different value
Corrupt ==
  /\ outcome.stage = "encoded" /\ outcome.err = "none"
  /\ Len(frame.payload) <= MaxPayloadLen
  /\ \E i \in 1..Len(packet) : \E byte \in Substitutes(packet[i]) :
       /\ packet' = [packet EXCEPT ![i] = byte]
       /\ outcome' = [outcome EXCEPT !.stage = "corrupted", !.position = i]
  /\ UNCHANGED <<frame, controller_vars, transport_vars>>

\* decode_frame(packet)
Decode ==
  /\ outcome.stage \in {"encoded", "corrupted", "forged"} /\ outcome.err = "none"
  /\ \E dec \in {decode_frame(packet)} :
       outcome' = [outcome EXCEPT !.stage = "decoded", !.err = dec.err, !.frame = dec.frame]
  /\ UNCHANGED <<frame, packet, controller_vars, transport_vars>>

\* parse_hex_line(format_hex_line(packet))
ParseLine ==
  /\ outcome.stage = "encoded" /\ outcome.err = "none"
  /\ \E parsed \in {parse_hex_line(format_hex_line(packet))} :
       outcome' = [outcome EXCEPT !.stage = IF parsed.is_frame THEN "parsed" ELSE "no frame",
                                  !.err = parsed.err, !.frame = parsed.frame]
  /\ UNCHANGED <<frame, packet, controller_vars, transport_vars>>

\* the bytes of a frame laid out as encode_frame lays them out, by a sender
\* that does not check the ranges: markers, length field and CRC agree
ForgedPacket(f) ==
  LET body == <<STX>> \o ToBytes2(f.version) \o ToBytes2(3 + Len(f.payload))
              \o <<f.tid, Ord(f.frame_type)>> \o ToBytes2(f.command) \o f.payload
  IN  body \o ToBytes2(crc16_ibm(SubSeq(body, 4, 5) \o SubSeq(body, 7, Len(body)))) \o <<ETX>>

\* a sender lays out a frame whose payload is one byte longer than
\* encode_frame accepts
Forge ==
  /\ outcome.stage = "new" /\ frame.payload = <<>>
  /\ frame' = [frame EXCEPT !.payload = Repeat(ETX, LongestPayload + 1)]
  /\ packet' = ForgedPacket(frame')
  /\ outcome' = [outcome EXCEPT !.stage = "forged"]
  /\ UNCHANGED <<controller_vars, transport_vars>>

\* encode_frame(decode_frame(packet))
Reencode ==
  /\ outcome.stage = "decoded" /\ outcome.err = "none"
  /\ \E enc \in {encode_frame(outcome.frame)} :
       outcome' = [outcome EXCEPT !.stage = "reencoded", !.again = enc]
  /\ UNCHANGED <<frame, packet, controller_vars, transport_vars>>

CodecNext ==
  \/ Forge
  \/ Reencode
  \/ Encode
  \/ Corrupt
  \/ Decode
  \/ ParseLine

SpecCodec == CodecInit /\ [][CodecNext]_vars

(***************************************************************************)
(* The transport on its own                                                *)
(***************************************************************************)

\* most lines written on, or injected into, one endpoint
MaxLines == 2

\* the lines written and injected: two different lines, one with blanks
\* around it, and the empty line
WireLines == {<<"A">>, <<"B">>, <<" ", "A", " ">>, <<>>}

\* what the device's readline() does: raises, returns nothing, or returns a
\* terminated line
DeviceReads ==
  {[raises |-> TRUE, payload |-> <<>>], [raises |-> FALSE, payload |-> <<>>]}
    \cup {[raises |-> FALSE, payload |-> EncodeUtf8(line) \o <<10>>] : line \in {<<"A">>, <<"B">>}}

\* connect_physical_peer(other): from then on the two endpoints are linked
connect_physical_peer(linked) == TRUE

\* what a write on endpoint e adds to the other endpoint once they are
\* linked: the line written, at the back of the other's receive queue
deliver_to_peer(uarts, linked, e, message) ==
  IF linked THEN [uarts EXCEPT ![Other(e)].rx_queue = Append(@, Strip(message))]
  ELSE uarts

TransportInit ==
  /\ ControllerParked
  /\ CodecParked
  /\ uart = [e \in Endpoints |-> SerialUART]
  /\ peered = FALSE
  /\ media \in {"peer", "serial", "echo"}
  /\ wire = NoTraffic
  /\ call = NoCall

\* the endpoints that take calls: both when bridged, the one with the
\* device otherwise
Callable == IF media = "peer" THEN Endpoints ELSE {"monitor"}

\* monitor.connect_physical_peer(io)
ConnectPeer ==
  /\ media = "peer" /\ ~peered
  /\ peered' = connect_physical_peer(peered)
  /\ call' = [NoCall EXCEPT !.op = "connect_physical_peer"]
  /\ UNCHANGED <<uart, media, wire, controller_vars, codec_vars>>

\* uart.inject_rx(line)
Inject ==
  /\ media \in {"serial", "echo"}
  /\ \E e \in Callable, line \in WireLines :
       /\ Len(uart[e].rx_queue) < MaxLines
       /\ uart' = [uart EXCEPT ![e] = inject_rx(@, line)]
       /\ call' = [NoCall EXCEPT !.op = "inject_rx", !.who = e, !.before = uart[e]]
  /\ UNCHANGED <<peered, media, wire, controller_vars, codec_vars>>

\* uart.open_serial(port, baudrate, bits); against the echoing peer the
\* device is opened once and does not fail
Open ==
  /\ media \in {"serial", "echo"}
  /\ \E e \in Callable, bits \in {8, 9}, opens \in BOOLEAN, close_raises \in BOOLEAN :
       /\ media = "echo" => ~serial_connected(uart[e]) /\ bits = 8 /\ opens
       /\ close_raises => serial_connected(uart[e])
       /\ \E opened \in {open_serial(uart[e], bits, opens, close_raises)} :
            /\ uart' = [uart EXCEPT ![e] = opened.uart]
            /\ call' = [NoCall EXCEPT !.op = "open_serial", !.who = e, !.ok = opened.ok,
                                      !.close_failed = close_raises, !.before = uart[e]]
  /\ UNCHANGED <<peered, media, wire, controller_vars, codec_vars>>

\* uart.close_serial()
Close ==
  /\ media # "echo"
  /\ \E e \in Callable, close_raises \in BOOLEAN :
       /\ close_raises => serial_connected(uart[e])
       /\ \E closed \in {close_serial(uart[e], close_raises)} :
            /\ uart' = [uart EXCEPT ![e] = closed.uart]
            /\ call' = [NoCall EXCEPT !.op = "close_serial", !.who = e, !.ok = closed.ok,
                                      !.close_failed = close_raises, !.before = uart[e]]
  /\ UNCHANGED <<peered, media, wire, controller_vars, codec_vars>>

\* uart.write_line(message)
Write ==
  /\ \E e \in Callable, message \in WireLines, write_raises \in BOOLEAN, close_raises \in BOOLEAN :
       /\ Len(uart[e].tx_queue) < MaxLines
       /\ media = "echo" => serial_connected(uart[e]) /\ ~write_raises
       /\ write_raises => serial_connected(uart[e])
       /\ close_raises => write_raises
       /\ \E written \in {write_line_serial(uart[e], message, write_raises, close_raises)} :
            uart' = deliver_to_peer([uart EXCEPT ![e] = written], peered, e, message)
       /\ wire' = IF peered THEN [wire EXCEPT !.sent[e] = Append(@, Strip(message))]
                  ELSE IF media = "echo" THEN [wire EXCEPT !.echoes = Append(@, Strip(message))]
                  ELSE wire
       /\ call' = [NoCall EXCEPT !.op = "write_line", !.who = e, !.device_failed = write_raises,
                                 !.close_failed = close_raises, !.before = uart[e]]
  /\ UNCHANGED <<peered, media, controller_vars, codec_vars>>

\* what the device's readline() returns for a line of text from the peer
Terminated(line) == [raises |-> FALSE, payload |-> EncodeUtf8(line) \o <<10>>]

\* a line the peer sends of its own accord, unlike any line written to it
GenuineLine == <<"G">>

\* uart.read_line() on a device that fails or returns any line
ReadAny ==
  /\ media # "echo"
  /\ \E e \in Callable, readline \in DeviceReads, close_raises \in BOOLEAN :
       /\ ~serial_connected(uart[e]) => readline = [raises |-> FALSE, payload |-> <<>>]
       /\ close_raises => readline.raises
       /\ \E read \in {read_line_serial(uart[e], readline, close_raises)} :
            /\ uart' = [uart EXCEPT ![e] = read.uart]
            /\ wire' = IF peered /\ read.has THEN [wire EXCEPT !.got[e] = Append(@, read.line)]
                       ELSE wire
            /\ call' = [NoCall EXCEPT !.op = "read_line", !.who = e, !.has = read.has,
                                      !.line = read.line, !.device_failed = readline.raises,
                                      !.close_failed = close_raises, !.before = uart[e],
                                      !.device = readline]
  /\ UNCHANGED <<peered, media, controller_vars, codec_vars>>

\* uart.read_line() on a device whose peer sends back every line written to
\* it, once and in the order written, and lines of its own in between
ReadEchoed ==
  /\ media = "echo"
  /\ \E e \in Callable, origin \in {"none", "echo", "genuine"} :
       /\ serial_connected(uart[e])
       /\ origin = "echo" => Len(wire.echoes) > 0
       /\ \E readline \in {IF origin = "echo" THEN Terminated(Head(wire.echoes))
                            ELSE IF origin = "genuine" THEN Terminated(GenuineLine)
                            ELSE [raises |-> FALSE, payload |-> <<>>]} :
            \E read \in {read_line_serial(uart[e], readline, FALSE)} :
              /\ uart' = [uart EXCEPT ![e] = read.uart]
              /\ wire' = IF origin = "echo" THEN [wire EXCEPT !.echoes = Tail(@)] ELSE wire
              /\ call' = [NoCall EXCEPT !.op = "read_line", !.who = e, !.has = read.has,
                                        !.line = read.line, !.before = uart[e],
                                        !.device = readline, !.origin = origin]
  /\ UNCHANGED <<peered, media, controller_vars, codec_vars>>

Read == ReadAny \/ ReadEchoed

TransportNext ==
  \/ ConnectPeer
  \/ Inject
  \/ Open
  \/ Close
  \/ Write
  \/ Read

SpecTransport == TransportInit /\ [][TransportNext]_vars

(***************************************************************************)
(* Properties                                                              *)
(***************************************************************************)

\* what the last step() did on each channel
MonitorChannel ==
  [name |-> "monitor", read |-> ev.mon_read, origin |-> ev.mon_origin, reply |-> ev.mon_reply,
   changed |-> ev.mon_changed]

IoChannel ==
  [name |-> "io", read |-> ev.io_read, origin |-> ev.io_origin, reply |-> ev.io_reply,
   changed |-> ev.io_changed]

Channels == {MonitorChannel, IoChannel}

\* the line is a well-formed Command frame
IsCommandFrame(line) ==
  Let(_parse_sck_frame(line), LAMBDA parsed :
    parsed.is_frame /\ parsed.frame.frame_type = "C")

\* the line is a well-formed Status frame
IsStatusFrame(line) ==
  Let(_parse_sck_frame(line), LAMBDA parsed :
    parsed.is_frame /\ parsed.frame.frame_type = "S")

\* the frame of a well-formed frame line
FrameOf(line) == _parse_sck_frame(line).frame

\* the channel read a Command frame in the last step()
ReadCommandFrame(ch) == ev.fresh /\ ch.read.has /\ IsCommandFrame(ch.read.line)

\* C1: at the end of every step() in which power_ok is false, compressor_on
\* is false (the state between steps is the state at the end of the last one).
C1_PowerLossForcesCompressorOff == ~io.power_ok => ~io.compressor_on

\* C1: a step() that read the command cutting the power while the compressor
\* was running.
C1_Witness ==
  /\ ev.fresh /\ ev.fault = "none"
  /\ ev.was_on /\ ev.had_power /\ ~io.power_ok
  /\ ev.io_read.has /\ ev.io_read.line = IoPowerOff

\* C2: compressor_on changes from false to true only in a step() that ran its
\* control loop, with power_ok true, air_temp_c >= target_temp_c + hysteresis_c
\* and now - last_compressor_off_s >= compressor_min_off_s, for the values in
\* force in that step.
C2_TurnOnOnlyWhenAllowed ==
  [][(~io.compressor_on /\ io'.compressor_on) =>
       /\ ev'.fresh /\ ev'.fault = "none"
       /\ io'.power_ok
       /\ io'.air_temp_c >= config'.target_temp_c + config'.hysteresis_c
       /\ last_compressor_off_s' = last_compressor_off_s
       /\ GeInt(now - last_compressor_off_s, config'.compressor_min_off_s)]_vars

\* C2: a step() that turned the compressor on after the minimum off-time set
\* by a command had elapsed.
C2_Witness ==
  /\ ev.fresh /\ ~ev.was_on /\ io.compressor_on
  /\ config.compressor_min_off_s = IntOf(TickS)
  /\ now - last_compressor_off_s = TickS

\* C3: the reply to a Command frame is a Status frame with the version,
\* transaction id and command code of the request.
C3_ReplyCarriesRequestHeader ==
  \A ch \in Channels :
    (ReadCommandFrame(ch) /\ Len(ch.reply) = 1 /\ IsStatusFrame(ch.reply[1])) =>
      /\ FrameOf(ch.reply[1]).version = FrameOf(ch.read.line).version
      /\ FrameOf(ch.reply[1]).tid = FrameOf(ch.read.line).tid
      /\ FrameOf(ch.reply[1]).command = FrameOf(ch.read.line).command

\* the command codes of SCKCommand
KnownCommands ==
  {MONITOR_SET_CONFIG, MONITOR_GET_CONFIG, MONITOR_GET_STATUS,
   IO_SET_SENSOR, IO_SET_INPUT, IO_GET_IO}

\* C4: every well-formed Command frame read by step() gets exactly one reply
\* line on its channel in that step, and the line is a Status frame; here for
\* the frames of an unknown command code, whose ERR reply embeds the request
\* payload.
C4_UnknownCommandFrameAnswered ==
  \A ch \in Channels :
    (ReadCommandFrame(ch) /\ FrameOf(ch.read.line).command \notin KnownCommands) =>
      Len(ch.reply) = 1 /\ IsStatusFrame(ch.reply[1])

\* C5: step() completes without an uncaught fault, whatever lines it reads.
C5_StepNeverRaises == ev.fault = "none"

\* the key of a monitor SET, in text or in a frame (an empty sequence of
\* keys when the line is no SET)
SetKeys(line) ==
  IF IsCommandFrame(line)
  THEN Let(DecodeUtf8(FrameOf(line).payload), LAMBDA payload_text :
         IF FrameOf(line).command = MONITOR_SET_CONFIG /\ Contains(payload_text, "=")
         THEN <<SplitOnce(payload_text, "=")[1]>> ELSE <<>>)
  ELSE IF StartsWith(line, TxtSET) /\ Contains(line, "=")
  THEN <<SplitOnce(SplitOnce(line, " ")[2], "=")[1]>>
  ELSE <<>>

\* the text of a reply line: the payload of a Status frame, or the line
ReplyText(line) ==
  IF IsStatusFrame(line) THEN DecodeUtf8(FrameOf(line).payload) ELSE line

\* C6: a monitor SET whose key is none of the five config fields is answered
\* ERR unknown_config:key and changes no state; here for the steps that ran
\* to their end.
C6_UnknownKeyRejected ==
  (ev.fresh /\ ev.mon_read.has /\ ev.fault = "none") =>
    \A i \in 1..Len(SetKeys(ev.mon_read.line)) :
      LET key == SetKeys(ev.mon_read.line)[i]
      IN  ~IsFieldName(key) =>
            /\ Len(ev.mon_reply) = 1
            /\ ReplyText(ev.mon_reply[1]) = TxtUnknownConfig \o key
            /\ ~ev.mon_changed

\* C7: a line the controller wrote on a channel, fed back into that channel,
\* is consumed with no reply on the channel and no change of state.
C7_EchoIgnored ==
  \A ch \in Channels :
    (ev.fresh /\ ch.origin = "echo") => ch.read.has /\ Len(ch.reply) = 0 /\ ~ch.changed

\* C7: a step() that read, on both channels, lines the step before had
\* written, the monitor's being a Status frame.
C7_Witness ==
  /\ ev.fresh /\ ev.fault = "none"
  /\ ev.mon_origin = "echo" /\ ev.io_origin = "echo"
  /\ IsStatusFrame(ev.mon_read.line)

\* C8: at the end of each step() the unsolicited STATUS line is written if
\* and only if the status differs from the cache, which then holds the line:
\* after a step() that wrote none the cache equals the status, and after one
\* that did it equals the line written.
C8_PublishedIffChanged ==
  ev.fresh =>
    /\ last_published_status = [set |-> TRUE, text |-> StatusLine(Controller)]
    /\ ev.published => ev.status_out = <<StatusLine(Controller)>>

\* two consecutive step() calls neither of which changed config or IO state
UnchangedPair == ev.ran /\ ev.prev.ran /\ ~ev.changed /\ ~ev.prev.changed

\* C9, as the code has it: over two consecutive step() calls with no change
\* of state at most one unsolicited status line is written, and the second
\* call writes none when the first ran to its end (the line, if any, is then
\* the first call's, as on the first two steps after construction).
C9_AtMostOneStatusPerPair ==
  UnchangedPair =>
    /\ ~(ev.prev.published /\ ev.published)
    /\ ev.prev.fault = "none" => ~ev.published

\* C9: the first two steps after construction, the first of which wrote the
\* status line.
C9_Witness ==
  /\ UnchangedPair /\ ev.fresh
  /\ ev.prev.published /\ ~ev.published
  /\ config = ControlConfig /\ io = IOState

\* C9, as stated: over such a pair at most one line is written, and it is
\* written by the second call.
C9_StatusOnSecondCall ==
  UnchangedPair =>
    /\ ~(ev.prev.published /\ ev.published)
    /\ ~ev.prev.published

\* the line is an explicit GET of the channel (GET STATUS or GET CONFIG on
\* the monitor channel, GET IO on the IO channel), in text or in a frame
IsGet(name, line) ==
  IF IsCommandFrame(line)
  THEN FrameOf(line).command \in (IF name = "monitor"
                                  THEN {MONITOR_GET_CONFIG, MONITOR_GET_STATUS}
                                  ELSE {IO_GET_IO})
  ELSE line \in (IF name = "monitor" THEN {TxtGET_STATUS, TxtGET_CONFIG} ELSE {TxtGET_IO})

\* C10: an explicit GET request read by step() is answered in that step and
\* changes no state.
C10_GetAlwaysAnswered ==
  \A ch \in Channels :
    (ev.fresh /\ ch.read.has /\ IsGet(ch.name, ch.read.line)) =>
      Len(ch.reply) = 1 /\ ~ch.changed

\* the lines with the frame marker that are spoilt: bad hex, a byte out of
\* range, too short, bad STX, bad ETX, length mismatch, CRC mismatch, bad type
MalformedLines == {BadHex, BadByte, BadShort, BadStx, BadEtx, BadLength, BadCrc, BadType}

Malformed(line) == line \in MalformedLines

\* C11: a line with the frame marker that fails hex parsing or frame decoding
\* raises nothing and is handled as plain text: the only reply on its channel
\* is the text line ERR unknown_command:<line>, no Status frame, and no state
\* changes.
C11_MalformedFrameIsText ==
  \A ch \in Channels :
    (ev.fresh /\ ch.read.has /\ Malformed(ch.read.line)) =>
      /\ ch.reply = <<TxtUnknownCommand \o ch.read.line>>
      /\ ~IsStatusFrame(ch.reply[1])
      /\ ~ch.changed
      /\ (\A other \in Channels : other.read.has => Malformed(other.read.line))
           => ev.fault = "none"

\* C11: a step() that read a frame of an unsupported type with a valid CRC on
\* the monitor channel and a frame with a wrong CRC on the IO channel.
C11_Witness ==
  /\ ev.fresh /\ ev.fault = "none"
  /\ ev.mon_read.has /\ ev.mon_read.line = BadType
  /\ ev.io_read.has /\ ev.io_read.line = BadCrc

\* step() took the line at the head of the queue, or nothing from an empty
\* queue
TookHead(before, after, read) ==
  IF Len(before.rx_queue) = 0
  THEN ~read.has /\ after.rx_queue = <<>>
  ELSE read.has /\ read.line = Head(before.rx_queue) /\ after.rx_queue = Tail(before.rx_queue)

\* C12: each step() takes exactly the head line of each channel's receive
\* queue, and nothing from an empty queue: the lines of a channel are
\* dispatched in order, one per step, whatever waits on the other channel.
C12_OneLinePerChannelPerStep ==
  [][Step => /\ TookHead(monitor_uart, monitor_uart', ev'.mon_read)
             /\ TookHead(io_uart, io_uart', ev'.io_read)]_vars

\* the values of the two types of config field: a float (counted in halves)
\* and an int (sign and canonical digits)
IsFloatValue(v) == v \in Int

IsIntValue(v) ==
  /\ v \in [neg : BOOLEAN, digits : Seq({Digits[i] : i \in 1..10})]
  /\ v.digits = Canonical(v.digits)

\* the last step() read a monitor SET naming field f and acknowledged it
\* with the value the field now holds
AckedSet(e, cfg, f) ==
  /\ e.fresh /\ e.mon_read.has
  /\ SetKeys(e.mon_read.line) = <<FieldName[f]>>
  /\ Len(e.mon_reply) = 1
  /\ ReplyText(e.mon_reply[1]) = TxtACK \o FieldName[f] \o Eq \o FormatConfigValue(cfg, f)

C14_AlarmMirrorsButton == io.panic_alarm_on = io.panic_button_pressed

\* C14: a step() that read the release of the button and cleared the alarm,
\* with the power lost.
C14_Witness ==
  /\ ev.fresh /\ ev.io_read.has /\ ev.io_read.line = IoPanicOff
  /\ ev.io_changed /\ ~io.panic_alarm_on /\ ~io.power_ok

\* C15: for every valid frame, decode_frame(encode_frame(f)) = f, and
\* parse_hex_line(format_hex_line(encode_frame(f))) = f.
C15_RoundTrip ==
  /\ outcome.stage = "encoded" => outcome.err = "none"
  /\ (outcome.stage \in {"decoded", "parsed", "no frame"} /\ outcome.position = 0) =>
       /\ outcome.stage # "no frame"
       /\ outcome.err = "none"
       /\ outcome.frame = frame

\* C15: the frame with the longest payload came back from its text rendering.
C15_Witness ==
  /\ outcome.stage = "parsed" /\ outcome.frame = frame
  /\ Len(frame.payload) = LongestPayload

\* the positions of the bytes the CRC does not cover and no check of
\* decode_frame reads: the two version bytes and the transaction id
VersionPositions == {2, 3}

TidPosition == {6}

\* C16, as stated: changing any single byte of an encoded frame makes
\* decode_frame fail with SCKError.
C16_AnyChangedByteRejected ==
  (outcome.stage = "decoded" /\ outcome.position > 0) => outcome.err = "SCKError"

\* C16, as the code has it: changing a single byte makes decode_frame fail
\* with SCKError, unless the byte is one of the two version bytes or the
\* transaction id, which the CRC does not cover: the packet then decodes to
\* the frame with that one field changed.
C16_ChangedByteRejectedUnlessUncovered ==
  (outcome.stage = "decoded" /\ outcome.position > 0) =>
    IF outcome.position \in VersionPositions
    THEN /\ outcome.err = "none"
         /\ outcome.frame = [frame EXCEPT !.version = FromBytes2(SubSeq(packet, 2, 3))]
         /\ outcome.frame # frame
    ELSE IF outcome.position \in TidPosition
    THEN /\ outcome.err = "none"
         /\ outcome.frame = [frame EXCEPT !.tid = packet[6]]
         /\ outcome.frame # frame
    ELSE outcome.err = "SCKError"

\* C16: a packet with a payload byte changed was rejected.
C16_Witness ==
  /\ outcome.stage = "decoded" /\ outcome.err = "SCKError"
  /\ Len(frame.payload) = MaxPayloadLen
  /\ outcome.position = 9 + MaxPayloadLen


\* C17: once two endpoints are connected as peers, every line written on one
\* is at once in the other's receive queue and is read there in the order
\* written, and none comes back to its writer: at each endpoint the lines
\* read so far followed by the lines still queued are exactly the lines the
\* other endpoint wrote; without the connection nothing is delivered
C17_PeerDeliversInOrder ==
  media = "peer" =>
    \A e \in Endpoints :
      /\ wire.got[e] \o uart[e].rx_queue = wire.sent[Other(e)]
      /\ ~peered => uart[e].rx_queue = <<>>

\* both endpoints wrote different lines, two of them one way, and the reader
\* has read both in order
C17_Witness ==
  /\ peered
  /\ wire.sent["monitor"] = <<<<"A">>, <<"B">>>>
  /\ wire.sent["io"] = <<<<"B">>>>
  /\ wire.got["io"] = wire.sent["monitor"]
  /\ wire.got["monitor"] = wire.sent["io"]
  /\ call.op = "read_line"


\* the call was a read_line or write_line during which the device raised
DeviceFailedIn(c) == c.op \in {"read_line", "write_line"} /\ c.device_failed

\* the read_line call returned what the receive queue held first, or None
ServedFromQueue(c) ==
  c.op = "read_line" =>
    IF Len(c.before.rx_queue) = 0 THEN ~c.has
    ELSE c.has /\ c.line = Head(c.before.rx_queue)

\* C18: after a read_line or write_line in which the device failed, the
\* transport is disconnected, no echo is pending, and the failing read_line
\* itself returned the head of the injected receive queue, whether or not
\* the device's close() raised as well
C18_DeviceFailureClosesAndClears ==
  DeviceFailedIn(call) =>
    /\ ~serial_connected(uart[call.who])
    /\ uart[call.who]._tx_echo_queue = <<>>
    /\ ServedFromQueue(call)

\* C19: close_serial reports success and leaves the transport disconnected
\* from every state, the device's close() raising included, and on a
\* transport already closed it reports success and changes nothing
C19_CloseAlwaysSucceeds ==
  call.op = "close_serial" =>
    /\ call.ok
    /\ ~serial_connected(uart[call.who])
    /\ ~serial_connected(call.before) => uart[call.who] = call.before

\* C19, amended: close_serial leaves the transport disconnected from every
\* state and on a transport already closed it reports success and changes
\* nothing; it reports success exactly when the device's close() did not
\* raise
C19_CloseDisconnectsAndReportsDevice ==
  call.op = "close_serial" =>
    /\ ~serial_connected(uart[call.who])
    /\ call.ok <=> ~call.close_failed
    /\ ~serial_connected(call.before) => call.ok /\ uart[call.who] = call.before

\* a close of an open transport whose device raised on close
C19_Witness ==
  /\ call.op = "close_serial"
  /\ serial_connected(call.before)
  /\ call.close_failed
  /\ ~call.ok
  /\ ~serial_connected(uart[call.who])


\* the thresholds and the timer as the control loop of the step just taken
\* saw them: no handler changes last_compressor_off_s, so the value before
\* the step is the one the loop compared
AtOrAboveUpper == io'.air_temp_c >= config'.target_temp_c + config'.hysteresis_c

AtOrBelowLower == io'.air_temp_c <= config'.target_temp_c - config'.hysteresis_c

MinOffElapsed == GeInt(now - last_compressor_off_s, config'.compressor_min_off_s)

\* the step just taken ran its control loop with power
ControlRanWithPower == ev'.fresh /\ ev'.fault = "none" /\ io'.power_ok

\* compressor_on as the control loop found it: no command sets it, so it is
\* the value before the step
OnBeforeControl == io.compressor_on

\* C20: with power, whenever the turn-on condition (at or above the upper
\* threshold with the minimum off-time elapsed) does not hold and the
\* temperature is at or below the lower threshold, the compressor is off at
\* the end of the step, for every hysteresis_c, zero and negative included
C20_ThreeBranchRule ==
  [][(ControlRanWithPower /\ ~(AtOrAboveUpper /\ MinOffElapsed) /\ AtOrBelowLower) =>
       ~io'.compressor_on]_vars

\* C20, amended: with power, at or above the upper threshold the compressor
\* is turned on when the minimum off-time has elapsed and is otherwise left
\* as it is, also when the temperature is at or below the lower threshold
\* as well; below the upper threshold it is turned off at or below the lower
\* threshold and left as it is above it
C20_OffBranchOnlyBelowUpper ==
  [][ControlRanWithPower =>
       io'.compressor_on =
         IF AtOrAboveUpper THEN (MinOffElapsed \/ OnBeforeControl)
         ELSE IF AtOrBelowLower THEN FALSE
         ELSE OnBeforeControl]_vars

\* a step with hysteresis_c <= 0 and the temperature at both thresholds or
\* between them, the minimum off-time not elapsed, the compressor running
C20_Witness ==
  /\ ev.fresh /\ ev.fault = "none" /\ io.power_ok
  /\ config.hysteresis_c <= 0
  /\ io.air_temp_c >= config.target_temp_c + config.hysteresis_c
  /\ io.air_temp_c <= config.target_temp_c - config.hysteresis_c
  /\ ~GeInt(now - last_compressor_off_s, config.compressor_min_off_s)
  /\ ev.was_on /\ io.compressor_on


\* the temperature the step just taken left is strictly inside the band
InDeadBand == ~AtOrAboveUpper /\ ~AtOrBelowLower

\* C21: a step with power in which the temperature is strictly between the
\* thresholds, or at or above the upper one with the minimum off-time not
\* elapsed and above the lower one, leaves compressor_on and
\* last_compressor_off_s as they were
C21_DeadBandKeepsCompressor ==
  [][(ev'.fresh /\ io'.power_ok
        /\ (InDeadBand \/ (AtOrAboveUpper /\ ~MinOffElapsed /\ ~AtOrBelowLower))) =>
       /\ io'.compressor_on = io.compressor_on
       /\ last_compressor_off_s' = last_compressor_off_s]_vars

\* a step that ran its control loop with the compressor running and the
\* temperature strictly between the thresholds
C21_Witness ==
  /\ ev.fresh /\ ev.fault = "none" /\ io.power_ok
  /\ ev.was_on /\ io.compressor_on
  /\ ev.io_read.has /\ ev.io_read.line = IoSetTempAtTarget
  /\ io.air_temp_c < config.target_temp_c + config.hysteresis_c
  /\ io.air_temp_c > config.target_temp_c - config.hysteresis_c


\* C22: last_compressor_off_s changes only in a step whose control loop takes
\* the compressor from running to stopped, by power loss or at or below the
\* lower threshold, and is then that step's clock reading; a step that finds
\* the compressor stopped and leaves it stopped leaves the time unchanged
C22_OffTimeOnlyOnTransition ==
  [][((last_compressor_off_s' # last_compressor_off_s) =>
         (/\ ev'.fresh /\ ev'.fault = "none"
          /\ io.compressor_on /\ ~io'.compressor_on
          /\ ~io'.power_ok \/ AtOrBelowLower))
      /\ ((io.compressor_on /\ ~io'.compressor_on) => last_compressor_off_s' = now)
      /\ ((~io.compressor_on /\ ~io'.compressor_on) =>
            last_compressor_off_s' = last_compressor_off_s)]_vars

\* a step during a power outage, the compressor stopped at an earlier time
\* and still stopped: the recorded off-time is the earlier one
C22_Witness ==
  /\ ev.fresh /\ ev.fault = "none"
  /\ ~ev.had_power /\ ~io.power_ok
  /\ ~ev.was_on /\ ~io.compressor_on
  /\ last_compressor_off_s > 0
  /\ now > last_compressor_off_s


\* the two outputs of the control loop
ControlOutputs == {"compressor_on", "panic_alarm_on"}

\* the text commands that name an output of the control loop as an input
SetsOutput(line) ==
  \E f \in ControlOutputs : \E v \in {<<"0">>, <<"1">>} :
    line = TxtSET_INPUT \o IOFieldName[f] \o Eq \o v

\* C23: in the step taken from any state, the monitor dispatch leaves every
\* IOState field as it was, the IO dispatch leaves every config field and
\* the two control outputs as they were, and a text command naming a control
\* output as an input is answered with ERR unknown_input
C23_DispatchKeepsToItsChannel ==
  \A run \in {step(Controller, now)} :
    \A c0 \in {Controller}, c1 \in {run.after_monitor}, c2 \in {run.after_io} :
      /\ c1.io = c0.io
      /\ c2.config = c1.config
      /\ \A f \in ControlOutputs : c2.io[f] = c0.io[f]
      /\ (c1.fault = "none" /\ read_line(c1.io_uart).has
            /\ SetsOutput(read_line(c1.io_uart).line)) =>
           \E f \in ControlOutputs :
             Written(c1.io_uart, c2.io_uart) = <<TxtUnknownInput \o IOFieldName[f]>>

\* a step that read an IO_SET_INPUT frame on the monitor channel and
\* SET_INPUT compressor_on=1 on the IO channel: both answered, nothing changed
C23_Witness ==
  /\ ev.fresh /\ ev.fault = "none"
  /\ ev.mon_read.has /\ ev.mon_read.line = FrmDoorOpen
  /\ ev.io_read.has /\ ev.io_read.line = IoSetCompressor
  /\ ev.io_reply = <<TxtUnknownInput \o IOFieldName.compressor_on>>
  /\ Len(ev.mon_reply) = 1
  /\ ~io.door_open /\ ~io.compressor_on
  /\ ~ev.changed


\* C24: every frame decode_frame returns has a payload of at most 1020
\* bytes, so that its length field is within 1..1023, and encode_frame of it
\* is accepted and gives back the bytes decoded
C24_DecodedFrameReencodes ==
  /\ (outcome.stage \in {"decoded", "reencoded"} /\ outcome.err = "none") =>
       3 + Len(outcome.frame.payload) \in 1..MaxLength
  /\ outcome.stage = "reencoded" =>
       outcome.again.err = "none" /\ outcome.again.packet = packet


\* the lines of a queue that are not empty, in order
NonEmptyLines(lines) == SelectSeq(lines, LAMBDA line : line # <<>>)

\* the text of the line the device handed to the last read_line
DeviceLine(c) == Strip(DecodeBytes(c.device.payload))

\* the last call was a read_line on an open device that returned a line
ReadFromDevice(c) ==
  /\ c.op = "read_line" /\ serial_connected(c.before)
  /\ ~c.device.raises /\ DeviceLine(c) # <<>>

\* C25: with the device open, a device line equal to the head of the
\* pending-echo queue is discarded and the head removed, and any other device
\* line is returned with the queue left as it was; when the peer sends back
\* every line written, once and in order, no echo is returned by read_line
\* and the queue holds exactly the echoes still to come, so it is empty once
\* they have all been read
C25_EchoSuppressedInOrder ==
  /\ ReadFromDevice(call) =>
       IF Len(call.before._tx_echo_queue) > 0
            /\ DeviceLine(call) = Head(call.before._tx_echo_queue)
       THEN /\ NonEmptyLines(uart[call.who]._tx_echo_queue)
                 = NonEmptyLines(Tail(call.before._tx_echo_queue))
            /\ ServedFromQueue(call)
       ELSE /\ call.has /\ call.line = DeviceLine(call)
            /\ uart[call.who] = call.before
  /\ media = "echo" =>
       /\ call.origin = "echo" => ServedFromQueue(call)
       /\ NonEmptyLines(uart["monitor"]._tx_echo_queue) = NonEmptyLines(wire.echoes)
       /\ (call.op = "read_line" /\ wire.echoes = <<>>) => uart["monitor"]._tx_echo_queue = <<>>

\* two lines were written and the peer sent both back; the last read took
\* the second echo from the device and returned the injected line instead:
\* nothing is pending
C25_Witness ==
  /\ media = "echo"
  /\ uart["monitor"].tx_queue = <<<<"A">>, <<"B">>>>
  /\ call.op = "read_line" /\ call.origin = "echo"
  /\ call.before._tx_echo_queue = <<<<"B">>>>
  /\ call.before.rx_queue = <<<<"B">>>>
  /\ call.has /\ call.line = <<"B">>
  /\ wire.echoes = <<>>
  /\ uart["monitor"]._tx_echo_queue = <<>>


\* the step just taken read a GET STATUS request on the monitor channel, as
\* text or as a frame
\* a step took the head of the monitor queue: injections and echoes add to
\* the back of it, the clock leaves it alone
TookMonitorLine ==
  /\ ev'.fresh /\ ev'.mon_read.has
  /\ Len(monitor_uart.rx_queue) > 0
  /\ monitor_uart'.rx_queue = Tail(monitor_uart.rx_queue)

ReadGetStatusText == TookMonitorLine /\ ev'.mon_read.line = TxtGET_STATUS

ReadGetStatusFrame ==
  /\ TookMonitorLine
  /\ ev'.mon_read.line \in {FrmGetStatus}

\* C26: a step that read an IO line changing a value ran its control loop on
\* the new value and then compared the status of the resulting state with
\* the cache: the alarm mirrors the button, no power means no compressor, a
\* temperature at or below the lower threshold and below the upper one means
\* no compressor, and the status written, if any, is that of the state the
\* step left; the reply to a GET STATUS read in a step is the status of the
\* state the step started from
C26_StepOrder ==
  /\ [](ev.fresh /\ ev.io_changed =>
          /\ ev.fault = "none"
          /\ io.panic_alarm_on = io.panic_button_pressed
          /\ ~io.power_ok => ~io.compressor_on
          /\ last_published_status = [set |-> TRUE, text |-> StatusLine(Controller)]
          /\ ev.published => ev.status_out = <<StatusLine(Controller)>>)
  /\ [][/\ (ev'.fresh /\ ev'.io_changed /\ io'.power_ok /\ ~AtOrAboveUpper /\ AtOrBelowLower) =>
             ~io'.compressor_on
        /\ ReadGetStatusText => ev'.mon_reply = <<StatusLine(Controller)>>
        /\ ReadGetStatusFrame =>
             /\ Len(ev'.mon_reply) = 1
             /\ IsStatusFrame(ev'.mon_reply[1])
             /\ FrameOf(ev'.mon_reply[1]).payload = EncodeUtf8(StatusLine(Controller))]_vars

\* a step that read GET STATUS and an IO line opening the door: the reply
\* shows the door closed, the status written after it shows the door open
C26_Witness ==
  /\ ev.fresh /\ ev.fault = "none"
  /\ ev.mon_read.has /\ ev.mon_read.line = TxtGET_STATUS
  /\ ev.io_read.has /\ ev.io_read.line = IoDoorOpen
  /\ ev.io_changed /\ io.door_open
  /\ Len(ev.mon_reply) = 1 /\ ev.published
  /\ ev.status_out = <<StatusLine(Controller)>>
  /\ ev.mon_reply # ev.status_out


\* a line the controller wrote itself: a response line or a Status frame
OwnOutput(line) == _is_protocol_response(line) \/ IsStatusFrame(line)

\* C27: in the step taken from any state the IO channel is written at most
\* once, by the IO dispatch, and only when it read a line that is neither
\* the controller's own output come back nor of its kind; the monitor channel
\* is written at most once by the monitor dispatch and at most once, after
\* that, by the status publication, and by nothing else
C27_UnsolicitedOnMonitorOnly ==
  \A run \in {step(Controller, now)} :
    \A c0 \in {Controller}, c1 \in {run.after_monitor}, c2 \in {run.after_io},
       c3 \in {run.after_control}, c4 \in {run.final} :
      \A io_out \in {Written(c0.io_uart, c4.io_uart)},
         mon_out \in {Written(c0.monitor_uart, c4.monitor_uart)} :
        /\ Len(io_out) <= 1
        /\ io_out = Written(c1.io_uart, c2.io_uart)
        /\ Len(io_out) = 1 =>
             /\ read_line(c0.io_uart).has
             /\ Head(rx_origin.io) # "echo"
             /\ ~OwnOutput(read_line(c0.io_uart).line)
        /\ Len(Written(c0.monitor_uart, c1.monitor_uart)) <= 1
        /\ Len(Written(c3.monitor_uart, c4.monitor_uart)) <= 1
        /\ mon_out = Written(c0.monitor_uart, c1.monitor_uart)
                       \o Written(c3.monitor_uart, c4.monitor_uart)

\* a step that read its own reply come back on the IO channel and a command
\* on the monitor channel: nothing written on the IO channel, a reply and a
\* status on the monitor channel
C27_Witness ==
  /\ ev.fresh /\ ev.fault = "none"
  /\ ev.io_read.has /\ ev.io_origin = "echo"
  /\ ev.io_reply = <<>>
  /\ Len(ev.mon_reply) = 1 /\ Len(ev.status_out) = 1
  /\ ev.mon_origin = "ext"


\* the six commands, each as a text line and as a Command frame with the
\* same arguments
FormPairs ==
  {[channel |-> "monitor", text |-> MonSetTarget, frame |-> FrmSetTarget],
   [channel |-> "monitor", text |-> TxtGET_CONFIG, frame |-> FrmGetConfig],
   [channel |-> "monitor", text |-> TxtGET_STATUS, frame |-> FrmGetStatus],
   [channel |-> "io", text |-> IoSetTempHigh, frame |-> FrmSetTemp],
   [channel |-> "io", text |-> IoDoorOpen, frame |-> FrmDoorOpen],
   [channel |-> "io", text |-> TxtGET_IO, frame |-> FrmGetIo]}

\* the controller after the dispatch of one line read on a channel, from the
\* present state
Dispatched(channel, line) ==
  IF channel = "monitor"
  THEN _process_monitor_uart([Controller EXCEPT !.monitor_uart.rx_queue = <<line>>])
  ELSE _process_io_uart([Controller EXCEPT !.io_uart.rx_queue = <<line>>])

\* the lines that dispatch wrote on its channel
Replies(channel, c) ==
  IF channel = "monitor" THEN Written(Controller.monitor_uart, c.monitor_uart)
  ELSE Written(Controller.io_uart, c.io_uart)

\* both receive queues are empty: the state between two commands
Settled == Len(monitor_uart.rx_queue) = 0 /\ Len(io_uart.rx_queue) = 0

\* C28: from any state between two commands, the text form and the framed
\* form of each of the six commands leave the same config and IO state, the
\* text form is answered with one text line, the framed form with one Status
\* frame, and the payload of that frame is the text line
C28_TextAndFrameEquivalent ==
  Settled =>
    \A pair \in FormPairs :
      \A as_text \in {Dispatched(pair.channel, pair.text)},
         as_frame \in {Dispatched(pair.channel, pair.frame)} :
        \A line \in {Replies(pair.channel, as_text)},
           framed \in {Replies(pair.channel, as_frame)} :
          /\ as_text.config = as_frame.config
          /\ as_text.io = as_frame.io
          /\ Len(line) = 1 /\ ~_parse_sck_frame(line[1]).is_frame
          /\ Len(framed) = 1 /\ IsStatusFrame(framed[1])
          /\ FrameOf(framed[1]).payload = EncodeUtf8(line[1])


\* the five prefixes of a plain-text response
ResponsePrefixes == {TxtACK, TxtERR, TxtSTATUS, TxtCONFIG, TxtIO}

\* every line the last step() wrote is a Status frame or begins with one of
\* the five prefixes
EmitsOnlyResponses ==
  \A i \in 1..Len(StepOutput) :
    \/ \E p \in ResponsePrefixes : StartsWith(StepOutput[i], p)
    \/ IsStatusFrame(StepOutput[i])

\* a line of the controller that came back, on the channel it was written on
\* or on the other, was read without a reply and without a change of state
EchoesDiscarded ==
  \A ch \in Channels :
    ch.origin = "echo" => (ch.read.has /\ Len(ch.reply) = 0 /\ ~ch.changed)

\* no externally injected line is waiting to be read
Drained ==
  \A e \in {"monitor", "io"} : \A i \in 1..Len(rx_origin[e]) : rx_origin[e][i] # "ext"

\* the last step() wrote nothing on either channel
Silent == StepOutput = <<>>

CoolingCalledFor ==
  io.power_ok /\ io.air_temp_c >= config.target_temp_c + config.hysteresis_c

\* the minimum off-time has elapsed since the last recorded off-time
OffLongEnough == GeInt(now - last_compressor_off_s, config.compressor_min_off_s)

\* C30: a call of step() with power, the temperature at or above the upper
\* threshold and the minimum off-time elapsed ends with the compressor on; a
\* compressor that is on stays on while there is power and the temperature
\* is at or above the upper threshold; and in every run in which, from some
\* point on, these conditions hold and the configuration is not changed, the
\* compressor is on from some step on and for ever.
C30_CoolingEventuallyOn ==
  /\ [][(StepTaken /\ io'.power_ok /\ AtOrAboveUpper /\ MinOffElapsed) =>
         io'.compressor_on]_vars
  /\ [][(io.compressor_on /\ io'.power_ok /\ AtOrAboveUpper) => io'.compressor_on]_vars
  /\ ((<>[](CoolingCalledFor /\ OffLongEnough)) /\ (<>[][config' = config]_vars)) =>
       (<>[]io.compressor_on)

=============================================================================
